---------------------------- MODULE Spec2Model ----------------------------
(***************************************************************************)
(* Asset URL resolution and signed-URL cache of the storefront:            *)
(*   - the URL builders of lib/utils/image.ts (pure functions of their     *)
(*     arguments, the process-wide CDN_URL / API_BASE_URL, the cached      *)
(*     storage configuration and the tenant kept in localStorage);         *)
(*   - the signed-URL cache of lib/services/signed-url.service.ts;         *)
(*   - the API client's 401 handling of lib/api/client.ts.                 *)
(* Strings are TLA+ strings; Len, \o and SubSeq act on them character by   *)
(* character.  Time is in seconds.                                         *)
(***************************************************************************)
EXTENDS Integers, Sequences, FiniteSets, TLC

VARIABLES
    CDN_URL,              \* process.env.NEXT_PUBLIC_CDN_URL || '' (read at import)
    cachedStorageConfig,  \* image.ts module variable
    currentTenant,        \* localStorage 'current_tenant'
    token,                \* localStorage 'token'
    out,                  \* the last builder call: its arguments and its result
    now,                  \* the clock (Date.now()), seconds
    urlCache,             \* the Map of signed-url.service.ts, in insertion order
    inflight,             \* signing requests awaiting their response
    ret,                  \* what the last step returned to its caller
    navPending            \* window.location.href was assigned; the page unloads

vars == << CDN_URL, cachedStorageConfig, currentTenant, token, out, now,
           urlCache, inflight, ret, navPending >>

\* null / undefined of the source (a string no asset or tenant is named by)
NULL == "<null>"

\* JavaScript truthiness of a string | null | undefined
Truthy(s) == s # NULL /\ s # ""

-----------------------------------------------------------------------------
(* String helpers: String.prototype.startsWith / endsWith / slice / includes *)

Ch(s, i) == SubSeq(s, i, i)

StartsWith(s, p) == Len(s) >= Len(p) /\ SubSeq(s, 1, Len(p)) = p

EndsWith(s, p) == Len(s) >= Len(p) /\ SubSeq(s, Len(s) - Len(p) + 1, Len(s)) = p

\* s.slice(1)
DropFirst(s) == SubSeq(s, 2, Len(s))

\* s.slice(0, -1)
DropLast(s) == SubSeq(s, 1, Len(s) - 1)

Includes(s, p) == \E i \in 1..(Len(s) - Len(p) + 1) : SubSeq(s, i, i + Len(p) - 1) = p

Digits == {"0", "1", "2", "3", "4", "5", "6", "7", "8", "9"}

WordChars == Digits \cup {"_"} \cup
    {"a", "b", "c", "d", "e", "f", "g", "h", "i", "j", "k", "l", "m",
     "n", "o", "p", "q", "r", "s", "t", "u", "v", "w", "x", "y", "z"} \cup
    {"A", "B", "C", "D", "E", "F", "G", "H", "I", "J", "K", "L", "M",
     "N", "O", "P", "Q", "R", "S", "T", "U", "V", "W", "X", "Y", "Z"}

\* /^\d+\.\w+$/.test(s)
IsNewFormatAnyDigits(s) ==
    \E i \in 2..(Len(s) - 1) :
        /\ Ch(s, i) = "."
        /\ \A j \in (i + 1)..Len(s) : Ch(s, j) \in WordChars

IsNewFormat(s) ==
    \E i \in 2..(Len(s) - 1) :
        /\ Ch(s, i) = "."
        /\ \A j \in 1..(i - 1) : Ch(s, j) \in Digits
        /\ \A j \in (i + 1)..Len(s) : Ch(s, j) \in WordChars

\* s.match(/^\d{4}-\d{2}-\d{2}-/) !== null
IsDatePrefixed(s) ==
    /\ Len(s) >= 11
    /\ \A j \in {1, 2, 3, 4, 6, 7, 9, 10} : Ch(s, j) \in Digits
    /\ \A j \in {5, 8, 11} : Ch(s, j) = "-"

-----------------------------------------------------------------------------
(* image.ts: constants and configuration                                   *)

PLACEHOLDER_IMAGE == "/placeholder.svg"

\* process.env.NEXT_PUBLIC_API_URL || 'http://localhost:80'
API_BASE_URL == "http://localhost:80"

ImageType == {"product", "customer", "banner", "category", "review",
              "notification", "ecommerce", "delivery_man", "chat",
              "category_banner", "flash_sale", "gateway", "order"}

ENTITY_PREFIXES(type) ==
    CASE type = "product" -> "p"
      [] type = "category" -> "c"
      [] OTHER -> NULL

\* StorageConfig | null: null is the record all of whose fields are missing
NoStorage == [driver |-> NULL, use_signed_urls |-> FALSE, public_url |-> NULL,
              path_prefix |-> NULL, storage_folder |-> NULL]

\* a ?? b on StorageConfig | null | undefined
Coalesce(a, b) == IF a = NoStorage THEN b ELSE a

\* a ?? b on string | null | undefined
CoalesceStr(a, b) == IF a = NULL THEN b ELSE a

\* a || b on strings
OrElse(a, b) == IF Truthy(a) THEN a ELSE b

isFullUrl(url) == StartsWith(url, "http://") \/ StartsWith(url, "https://")

hasCdnConfigured == Len(CDN_URL) > 0

\* filename.startsWith('/') ? filename.slice(1) : filename
CleanFilename(filename) ==
    IF StartsWith(filename, "/") THEN DropFirst(filename) ELSE filename

\* CDN_URL.endsWith('/') ? CDN_URL.slice(0, -1) : CDN_URL
CdnBase == IF EndsWith(CDN_URL, "/") THEN DropLast(CDN_URL) ELSE CDN_URL

buildCdnUrlNoBase(storage, tenant, type, filename) ==
    "/" \o OrElse(storage.path_prefix, "img") \o "/tenants/"
        \o OrElse(storage.storage_folder, tenant) \o "/" \o type \o "/"
        \o CleanFilename(filename)

buildCdnUrl(storage, tenant, type, filename) ==
    CdnBase \o "/" \o OrElse(storage.path_prefix, "img") \o "/tenants/"
        \o OrElse(storage.storage_folder, tenant) \o "/" \o type \o "/"
        \o CleanFilename(filename)

buildProxyUrl(storage, tenant, type, filename) ==
    API_BASE_URL \o "/" \o tenant \o "/storage/gcs/img/tenants/"
        \o OrElse(storage.storage_folder, tenant) \o "/" \o type \o "/"
        \o CleanFilename(filename)

buildR2Url(storage, tenant, type, filename) ==
    IF Truthy(CDN_URL) THEN buildCdnUrl(storage, tenant, type, filename)
    ELSE IF ~Truthy(storage.public_url)
         THEN buildProxyUrl(storage, tenant, type, filename)
    ELSE storage.public_url \o "/" \o OrElse(storage.path_prefix, "img")
             \o "/tenants/" \o OrElse(storage.storage_folder, tenant)
             \o "/" \o type \o "/" \o CleanFilename(filename)

\* getCurrentTenant(): localStorage 'current_tenant' (null on the server)
getCurrentTenant == currentTenant

(* options of getImageUrl: absent, a StorageConfig passed directly (legacy, *)
(* 'driver' in options), or ImageUrlOptions {storageConfig, tenant}        *)
NoOptions == [kind |-> "none", storageConfig |-> NoStorage, tenant |-> NULL]

getImageUrlNullOnly(type, filename, options) ==
    IF filename = NULL THEN PLACEHOLDER_IMAGE
    ELSE LET tenant == OrElse(IF options.kind = "new" THEN options.tenant
                              ELSE NULL, getCurrentTenant)
             storage == Coalesce(IF options.kind = "none" THEN NoStorage
                                 ELSE options.storageConfig,
                                 cachedStorageConfig)
         IN  IF ~Truthy(tenant) THEN PLACEHOLDER_IMAGE
             ELSE buildProxyUrl(storage, tenant, type, filename)

getImageUrlReadsToken(type, filename, options) ==
    IF Truthy(token) THEN getImageUrlNullOnly(type, filename, options)
    ELSE PLACEHOLDER_IMAGE

getImageUrl(type, filename, options) ==
    IF ~Truthy(filename) THEN PLACEHOLDER_IMAGE
    ELSE IF isFullUrl(filename) THEN filename
    ELSE
      LET storageConfig == IF options.kind = "none" THEN NoStorage
                           ELSE options.storageConfig
          tenantParam == IF options.kind = "new" THEN options.tenant ELSE NULL
          tenant == OrElse(tenantParam, getCurrentTenant)
          storage == Coalesce(storageConfig, cachedStorageConfig)
          cleanFilename == CleanFilename(filename)
      IN  IF ~Truthy(tenant) THEN PLACEHOLDER_IMAGE
          ELSE IF Truthy(CDN_URL)
               THEN buildCdnUrl(storage, tenant, type, cleanFilename)
          ELSE IF storage.driver = "r2"
               THEN buildR2Url(storage, tenant, type, cleanFilename)
          ELSE buildProxyUrl(storage, tenant, type, cleanFilename)


(* src/lib/utils/image.ts: the builders of the image helper that takes     *)
(* baseUrls as its first parameter (kept for compatibility, never read).   *)
(* They have the names of the builders above.                              *)
utilsBuildCdnUrl(storage, tenant, type, filename) ==
    CdnBase \o "/" \o OrElse(storage.path_prefix, "img") \o "/tenants/"
        \o tenant \o "/" \o type \o "/" \o CleanFilename(filename)

utilsBuildProxyUrl(tenant, type, filename) ==
    API_BASE_URL \o "/" \o tenant \o "/storage/gcs/img/tenants/" \o tenant
        \o "/" \o type \o "/" \o CleanFilename(filename)

utilsBuildR2Url(storage, tenant, type, filename) ==
    IF Truthy(CDN_URL) THEN utilsBuildCdnUrl(storage, tenant, type, filename)
    ELSE IF ~Truthy(storage.public_url)
         THEN utilsBuildProxyUrl(tenant, type, filename)
    ELSE storage.public_url \o "/" \o OrElse(storage.path_prefix, "img")
             \o "/tenants/" \o tenant \o "/" \o type \o "/"
             \o CleanFilename(filename)

utilsGetImageUrl(type, filename, options) ==
    IF ~Truthy(filename) THEN PLACEHOLDER_IMAGE
    ELSE IF isFullUrl(filename) THEN filename
    ELSE
      LET storageConfig == IF options.kind = "none" THEN NoStorage
                           ELSE options.storageConfig
          tenantParam == IF options.kind = "new" THEN options.tenant ELSE NULL
          tenant == OrElse(tenantParam, getCurrentTenant)
          storage == Coalesce(storageConfig, cachedStorageConfig)
          cleanFilename == CleanFilename(filename)
      IN  IF ~Truthy(tenant) THEN PLACEHOLDER_IMAGE
          ELSE IF Truthy(CDN_URL)
               THEN utilsBuildCdnUrl(storage, tenant, type, cleanFilename)
          ELSE IF storage.driver = "r2"
               THEN utilsBuildR2Url(storage, tenant, type, cleanFilename)
          ELSE utilsBuildProxyUrl(tenant, type, cleanFilename)

(* indexOrFilename: number | string *)
Num(n) == [isNum |-> TRUE, n |-> n, s |-> NULL]
Str(s) == [isNum |-> FALSE, n |-> 0, s |-> s]

getPublicIdImageUrlDriverFirst(entityType, publicId, indexOrFilename, storageConfig) ==
    LET prefix == ENTITY_PREFIXES(entityType)
        storage == Coalesce(storageConfig, cachedStorageConfig)
        pathPrefix == OrElse(storage.path_prefix, "img")
        filename == IF indexOrFilename.isNum
                    THEN ToString(indexOrFilename.n) \o ".jpg"
                    ELSE indexOrFilename.s
    IN  IF ~Truthy(publicId) \/ ~Truthy(prefix) THEN PLACEHOLDER_IMAGE
        ELSE LET imagePath == prefix \o "/" \o publicId \o "/" \o filename
             IN  IF storage.driver = "r2" /\ Truthy(storage.public_url)
                 THEN storage.public_url \o "/" \o pathPrefix \o "/" \o imagePath
                 ELSE IF Truthy(CDN_URL)
                 THEN CdnBase \o "/" \o pathPrefix \o "/" \o imagePath
                 ELSE API_BASE_URL \o "/storage/" \o pathPrefix \o "/" \o imagePath

getPublicIdImageUrl(entityType, publicId, indexOrFilename, storageConfig) ==
    LET prefix == ENTITY_PREFIXES(entityType)
        storage == Coalesce(storageConfig, cachedStorageConfig)
        pathPrefix == OrElse(storage.path_prefix, "img")
        filename == IF indexOrFilename.isNum
                    THEN ToString(indexOrFilename.n) \o ".jpg"
                    ELSE indexOrFilename.s
    IN  IF ~Truthy(publicId) \/ ~Truthy(prefix) THEN PLACEHOLDER_IMAGE
        ELSE LET imagePath == prefix \o "/" \o publicId \o "/" \o filename
             IN  IF Truthy(CDN_URL)
                 THEN CdnBase \o "/" \o pathPrefix \o "/" \o imagePath
                 ELSE IF storage.driver = "r2" /\ Truthy(storage.public_url)
                 THEN storage.public_url \o "/" \o pathPrefix \o "/" \o imagePath
                 ELSE API_BASE_URL \o "/storage/" \o pathPrefix \o "/" \o imagePath

(* EntityImageData.image: string | string[] | null *)
One(s) == [isArray |-> FALSE, items |-> << >>, s |-> s]
Many(items) == [isArray |-> TRUE, items |-> items, s |-> NULL]

FirstImage(image) ==
    IF image.isArray
    THEN IF Len(image.items) > 0 THEN image.items[1] ELSE NULL
    ELSE image.s

getEntityCardImageUrlNoFormatTest(entityType, entity, options) ==
    LET firstImage == FirstImage(entity.image)
        publicId == CoalesceStr(entity.publicId, entity.public_id)
    IN  IF ~Truthy(firstImage) THEN PLACEHOLDER_IMAGE
        ELSE IF Truthy(publicId) /\ Truthy(ENTITY_PREFIXES(entityType))
        THEN getPublicIdImageUrl(entityType, publicId, Str(firstImage),
                                 options.storageConfig)
        ELSE getImageUrl(entityType, firstImage,
                 [kind |-> "new", storageConfig |-> options.storageConfig,
                  tenant |-> options.tenant])

getEntityCardImageUrl(entityType, entity, options) ==
    LET firstImage == FirstImage(entity.image)
        publicId == CoalesceStr(entity.publicId, entity.public_id)
    IN  IF ~Truthy(firstImage) THEN PLACEHOLDER_IMAGE
        ELSE IF IsNewFormat(firstImage) /\ Truthy(publicId)
                /\ Truthy(ENTITY_PREFIXES(entityType))
        THEN getPublicIdImageUrl(entityType, publicId, Str(firstImage),
                                 options.storageConfig)
        ELSE getImageUrl(entityType, firstImage,
                 [kind |-> "new", storageConfig |-> options.storageConfig,
                  tenant |-> options.tenant])

getProductImageUrl(publicId, indexOrFilename, storageConfig) ==
    getPublicIdImageUrl("product", publicId, indexOrFilename, storageConfig)

\* images: (string | number)[] | null (null: not an array); the index of
\* Array.prototype.map is zero-based
getProductImageUrls(publicId, images, storageConfig) ==
    IF ~Truthy(publicId) \/ ~images.isArray \/ Len(images.items) = 0
    THEN << PLACEHOLDER_IMAGE >>
    ELSE [i \in 1..Len(images.items) |->
            IF ~images.items[i].isNum /\ IsDatePrefixed(images.items[i].s)
            THEN getProductImageUrl(publicId, Num(i - 1), storageConfig)
            ELSE getProductImageUrl(publicId, images.items[i], storageConfig)]

getProductCardImageUrl(product, options) ==
    getEntityCardImageUrl("product", product, options)

getCategoryCardImageUrl(category, options) ==
    getEntityCardImageUrl("category", category, options)

(* CanonicalProductPage: the image URL of the selected product image.      *)
(* images = product.image || []; tenant is the route parameter;            *)
(* storageConfig is config?.storage                                        *)
CanonicalImageUrl(product, selectedImageIndex, tenant, storageConfig) ==
    LET images == product.image.items
        pick(i) == IF i + 1 <= Len(images) THEN images[i + 1] ELSE NULL
        currentImage == OrElse(pick(selectedImageIndex), pick(0))
        isNewFormat == Truthy(currentImage) /\ IsNewFormat(currentImage)
    IN  IF isNewFormat /\ Truthy(product.publicId)
        THEN getProductImageUrl(product.publicId, Str(currentImage), storageConfig)
        ELSE getImageUrl("product", currentImage,
                 [kind |-> "new", storageConfig |-> storageConfig,
                  tenant |-> tenant])

-----------------------------------------------------------------------------
(* Inputs the builders are exercised on                                    *)

Cfg(driver, signed, publicUrl, pathPrefix, folder) ==
    [driver |-> driver, use_signed_urls |-> signed, public_url |-> publicUrl,
     path_prefix |-> pathPrefix, storage_folder |-> folder]

CfgLocal == Cfg("local", FALSE, NULL, NULL, NULL)
CfgGcs == Cfg("gcs", FALSE, NULL, "img", "")
CfgGcsSigned == Cfg("gcs", TRUE, NULL, "img", "schema1")
CfgR2 == Cfg("r2", FALSE, "https://pub.example.dev", "img", NULL)
CfgR2Folder == Cfg("r2", FALSE, "https://pub.example.dev", "assets", "schema1")
CfgR2NoUrl == Cfg("r2", FALSE, NULL, "img", "schema1")
CfgR2EmptyUrl == Cfg("r2", FALSE, "", NULL, NULL)

Configs == {CfgLocal, CfgGcs, CfgGcsSigned, CfgR2, CfgR2Folder, CfgR2NoUrl,
            CfgR2EmptyUrl}

CdnUrls == {"", "https://cdn.example.com", "https://cdn.example.com/"}

Tenants == {NULL, "", "acme"}

PublicIds == {NULL, "", "01hx"}

Filenames == {NULL, "", "0.jpg", "12.webp", "/0.jpg", "logo.png", "/logo.png",
              "//logo.png", "2024-01-01-abc.jpg", "0.", ".jpg", "1.a-b",
              "a0.jpg", "http://x.io/a.png", "https://x.io/0.jpg"}

BuildTypes == {"product", "category", "banner", "order"}

NoCall == [fn |-> "none"]

-----------------------------------------------------------------------------
(* The builders as operations: each call records its arguments and result  *)

BuildUnchanged == UNCHANGED << CDN_URL, token, now, urlCache, inflight,
                               ret, navPending >>

\* setStorageConfig(config): config ?? null
setStorageConfig(config) ==
    /\ out = NoCall
    /\ cachedStorageConfig' = config
    /\ out' = NoCall
    /\ UNCHANGED << CDN_URL, currentTenant, token, now, urlCache, inflight,
                    ret, navPending >>

\* the [tenant] page stores the route's tenant in localStorage
SetCurrentTenant(t) ==
    /\ out = NoCall
    /\ currentTenant' = t
    /\ out' = NoCall
    /\ UNCHANGED << CDN_URL, cachedStorageConfig, token, now, urlCache,
                    inflight, ret, navPending >>

CallGetImageUrl(type, filename, options) ==
    /\ out = NoCall
    /\ out' = [fn |-> "getImageUrl", type |-> type, filename |-> filename,
               options |-> options,
               result |-> getImageUrl(type, filename, options)]
    /\ UNCHANGED << cachedStorageConfig, currentTenant >>
    /\ BuildUnchanged

\* getImageUrl of src/lib/utils/image.ts
CallUtilsGetImageUrl(type, filename, options) ==
    /\ out = NoCall
    /\ out' = [fn |-> "utils.getImageUrl", type |-> type, filename |-> filename,
               options |-> options,
               result |-> utilsGetImageUrl(type, filename, options)]
    /\ UNCHANGED << cachedStorageConfig, currentTenant >>
    /\ BuildUnchanged

CallGetPublicIdImageUrl(type, publicId, indexOrFilename, storageConfig) ==
    /\ out = NoCall
    /\ out' = [fn |-> "getPublicIdImageUrl", type |-> type,
               publicId |-> publicId, indexOrFilename |-> indexOrFilename,
               storageConfig |-> storageConfig,
               result |-> getPublicIdImageUrl(type, publicId, indexOrFilename,
                                              storageConfig)]
    /\ UNCHANGED << cachedStorageConfig, currentTenant >>
    /\ BuildUnchanged

CallGetEntityCardImageUrl(type, entity, options) ==
    /\ out = NoCall
    /\ out' = [fn |-> "getEntityCardImageUrl", type |-> type,
               entity |-> entity, options |-> options,
               result |-> getEntityCardImageUrl(type, entity, options)]
    /\ UNCHANGED << cachedStorageConfig, currentTenant >>
    /\ BuildUnchanged

CallGetProductImageUrls(publicId, images, storageConfig) ==
    /\ out = NoCall
    /\ out' = [fn |-> "getProductImageUrls", publicId |-> publicId,
               images |-> images, storageConfig |-> storageConfig,
               results |-> getProductImageUrls(publicId, images, storageConfig)]
    /\ UNCHANGED << cachedStorageConfig, currentTenant >>
    /\ BuildUnchanged

CallCanonicalImageUrl(product, selectedImageIndex, tenant, storageConfig) ==
    /\ out = NoCall
    /\ out' = [fn |-> "CanonicalProductPage", product |-> product,
               selectedImageIndex |-> selectedImageIndex, tenant |-> tenant,
               storageConfig |-> storageConfig,
               result |-> CanonicalImageUrl(product, selectedImageIndex,
                                            tenant, storageConfig)]
    /\ UNCHANGED << cachedStorageConfig, currentTenant >>
    /\ BuildUnchanged

\* the caller has consumed the result of the call
Consume ==
    /\ out # NoCall
    /\ out' = NoCall
    /\ UNCHANGED << cachedStorageConfig, currentTenant >>
    /\ BuildUnchanged

OptionValues ==
    {NoOptions}
    \cup {[kind |-> "legacy", storageConfig |-> c, tenant |-> NULL] :
            c \in {CfgLocal, CfgR2, CfgR2NoUrl}}
    \cup {[kind |-> "new", storageConfig |-> c, tenant |-> t] :
            c \in {NoStorage, CfgGcsSigned, CfgR2Folder, CfgR2EmptyUrl},
            t \in {NULL, "acme"}}

CardOptions ==
    {[storageConfig |-> c, tenant |-> t] :
        c \in {NoStorage, CfgGcsSigned, CfgR2, CfgR2NoUrl}, t \in {NULL, "acme"}}

Entities ==
    {[image |-> One(f), publicId |-> p, public_id |-> q] :
        f \in Filenames \ {"//logo.png", "0.", "a0.jpg", "https://x.io/0.jpg"},
        p \in PublicIds, q \in {NULL, "01hy"}}
    \cup {[image |-> Many(a), publicId |-> p, public_id |-> NULL] :
        a \in {<< >>, <<"0.jpg", "logo.png">>, <<"2024-01-01-abc.jpg", "1.png">>},
        p \in {NULL, "01hx"}}

ImageLists ==
    {[isArray |-> FALSE, items |-> << >>, s |-> NULL], Many(<< >>),
     Many(<< Str("0.jpg"), Str("2024-01-01-abc.jpg") >>),
     Many(<< Str("logo.png"), Num(1) >>),
     Many(<< Str("2024-01-01-abc.jpg") >>)}

InitBuild ==
    /\ CDN_URL \in CdnUrls
    /\ cachedStorageConfig = NoStorage
    /\ currentTenant \in {NULL, "acme"}
    /\ token = NULL
    /\ out = NoCall
    /\ now = 0
    /\ urlCache = << >>
    /\ inflight = {}
    /\ ret = NoCall
    /\ navPending = FALSE

NextBuild ==
    \/ /\ out = NoCall
       /\ \E c \in {NoStorage, CfgGcs, CfgR2, CfgR2Folder, CfgR2NoUrl} :
             setStorageConfig(c)
    \/ /\ out = NoCall
       /\ \E t \in {"acme", "globex"} : SetCurrentTenant(t)
    \/ /\ out = NoCall
       /\ \E type \in BuildTypes, f \in Filenames, o \in OptionValues :
             CallGetImageUrl(type, f, o)
    \/ /\ out = NoCall
       /\ \E type \in {"product", "banner"},
             f \in {NULL, "logo.png", "/logo.png", "https://x.io/0.jpg"},
             o \in OptionValues :
             CallUtilsGetImageUrl(type, f, o)
    \/ /\ out = NoCall
       /\ \E type \in BuildTypes, p \in PublicIds,
             x \in {Str("0.jpg"), Str("logo.png"), Str("https://x.io/0.jpg"),
                    Num(0), Num(2)},
             c \in {NoStorage, CfgR2, CfgR2EmptyUrl} :
             CallGetPublicIdImageUrl(type, p, x, c)
    \/ /\ out = NoCall
       /\ \E type \in BuildTypes, e \in Entities, o \in CardOptions :
             CallGetEntityCardImageUrl(type, e, o)
    \/ /\ out = NoCall
       /\ \E p \in PublicIds, l \in ImageLists, c \in {NoStorage, CfgR2, CfgGcs} :
             CallGetProductImageUrls(p, l, c)
    \/ /\ out = NoCall
       /\ \E e \in {x \in Entities : x.image.isArray}, i \in 0..2,
             t \in {"acme"}, c \in {NoStorage, CfgR2, CfgGcsSigned} :
             CallCanonicalImageUrl(e, i, t, c)
    \/ Consume

SpecBuild == InitBuild /\ [][NextBuild]_vars

-----------------------------------------------------------------------------
(* signed-url.service.ts: the cache                                        *)

CACHE_BUFFER_SECONDS == 60

\* 500 in the source; scaled so that a cache over capacity is reachable
MAX_CACHE_SIZE == 2

DEFAULT_EXPIRATION_MINUTES == 10

\* client.ts: axios timeout in milliseconds
API_TIMEOUT == 120000

\* the clock advances in steps of TickStep seconds, up to MaxTime
TickStep == 30
MaxTime == 660

\* at most MaxInFlight signing requests are in flight at a time
MaxInFlight == 1

getCacheKey(tenant, type, filename) == tenant \o ":" \o type \o ":" \o filename

buildAssetKeyRaw(tenant, type, filename) ==
    "tenants/" \o tenant \o "/" \o type \o "/" \o filename

buildAssetKey(tenant, type, filename) ==
    "tenants/" \o tenant \o "/" \o type \o "/" \o CleanFilename(filename)

(* A cache entry is [key, url, expiresAt] of the Map, in insertion order;   *)
(* storedAt and issuedAt are history: when the entry was written and when  *)
(* the signer issued its url.                                              *)
CacheKeys(cache) == {cache[i].key : i \in 1..Len(cache)}

\* urlCache.get(key); NoEntry for undefined
NoEntry == [key |-> NULL, url |-> NULL, expiresAt |-> 0, storedAt |-> 0,
            issuedAt |-> 0]

CacheGet(cache, key) ==
    IF key \in CacheKeys(cache)
    THEN cache[CHOOSE i \in 1..Len(cache) : cache[i].key = key]
    ELSE NoEntry

CacheSetKeepFirst(cache, entry) ==
    IF entry.key \in CacheKeys(cache) THEN cache ELSE Append(cache, entry)

\* urlCache.set(key, value): a present key keeps its place in the order
CacheSet(cache, entry) ==
    IF entry.key \in CacheKeys(cache)
    THEN [i \in 1..Len(cache) |->
            IF cache[i].key = entry.key THEN entry ELSE cache[i]]
    ELSE Append(cache, entry)

\* urlCache.delete(key) for every key of keys
CacheDelete(cache, keys) ==
    LET Keep(e) == e.key \notin keys IN SelectSeq(cache, Keep)

isCacheValidNoBuffer(cached, t) == t < cached.expiresAt

isCacheValid(cached, t) == t < cached.expiresAt - CACHE_BUFFER_SECONDS

\* insert e into the sorted sequence after the entries that do not expire
\* later than e (Array.prototype.sort is stable)
RECURSIVE InsertByExpiry(_, _)
InsertByExpiry(sorted, e) ==
    IF sorted = << >> THEN << e >>
    ELSE IF Head(sorted).expiresAt - e.expiresAt <= 0
         THEN << Head(sorted) >> \o InsertByExpiry(Tail(sorted), e)
         ELSE << e >> \o sorted

\* entries.sort((a, b) => a[1].expiresAt - b[1].expiresAt)
RECURSIVE SortByExpiry(_)
SortByExpiry(entries) ==
    IF entries = << >> THEN << >>
    ELSE InsertByExpiry(SortByExpiry(SubSeq(entries, 1, Len(entries) - 1)),
                        entries[Len(entries)])

cleanExpiredCacheKeepOldest(cache, t) ==
    LET Live(e) == ~(t >= e.expiresAt)
        live == SelectSeq(cache, Live)
    IN  IF Len(live) > MAX_CACHE_SIZE
        THEN SubSeq(live, 1, MAX_CACHE_SIZE)
        ELSE live

cleanExpiredCacheNoExpiry(cache, t) ==
    IF Len(cache) > MAX_CACHE_SIZE
    THEN LET entries == SortByExpiry(cache)
             toRemove == SubSeq(entries, 1, Len(entries) - MAX_CACHE_SIZE)
         IN  CacheDelete(cache, CacheKeys(toRemove))
    ELSE cache

cleanExpiredCacheEarly(cache, t) ==
    LET Live(e) == ~(t >= e.expiresAt - 2 * CACHE_BUFFER_SECONDS)
    IN  SelectSeq(cache, Live)

cleanExpiredCache(cache, t) ==
    LET Live(e) == ~(t >= e.expiresAt)
        live == SelectSeq(cache, Live)
    IN  IF Len(live) > MAX_CACHE_SIZE
        THEN LET entries == SortByExpiry(live)
                 toRemove == SubSeq(entries, 1, Len(entries) - MAX_CACHE_SIZE)
             IN  CacheDelete(live, CacheKeys(toRemove))
        ELSE live

usesPublicUrlsNever == FALSE

usesPublicUrls == cachedStorageConfig.driver = "r2"

-----------------------------------------------------------------------------
(* The signing endpoint and the API client                                 *)

\* the URL the signer issues for an asset key at time t
SignedUrl(asset, t) ==
    "https://storage.googleapis.com/" \o asset \o "?X-Goog-Date=" \o ToString(t)

(* What a signing request can end in: a 2xx body {success, data: {url}},   *)
(* a non-2xx status, or no response (network error, timeout).              *)
Response(kind, success, url, issuedAt) ==
    [kind |-> kind, success |-> success, url |-> url, issuedAt |-> issuedAt]

Signed(asset, t) == Response("body", TRUE, SignedUrl(asset, t), t)

Failures ==
    {Response("body", FALSE, NULL, 0),
     Response("body", FALSE, "https://storage.googleapis.com/denied", 0),
     Response("body", TRUE, NULL, 0),
     Response("body", TRUE, "", 0),
     Response("http500", FALSE, NULL, 0),
     Response("http401", FALSE, NULL, 0),
     Response("network", FALSE, NULL, 0)}

\* axios rejects on a non-2xx status and when there is no response
AxiosRejects(resp) == resp.kind # "body"

\* fetchSignedUrl: the url of a successful body, null otherwise; the
\* try/catch turns a rejection into null
fetchSignedUrlAnyBody(resp) ==
    IF AxiosRejects(resp) THEN NULL ELSE resp.url

fetchSignedUrl(resp) ==
    IF AxiosRejects(resp) THEN NULL
    ELSE IF resp.success /\ Truthy(resp.url) THEN resp.url
    ELSE NULL

TimeoutSeconds == API_TIMEOUT \div 1000

ExpirationSeconds == DEFAULT_EXPIRATION_MINUTES * 60

\* the instants between sending and receiving at which the signer may have
\* issued the url
IssueTimes(sentAt, t) ==
    {sentAt + k * TickStep : k \in 0..((t - sentAt) \div TickStep)}

-----------------------------------------------------------------------------
(* getSignedImageUrl and getImageUrlWithSignedFallback                     *)

NoRet == [fn |-> "none"]

NoResponse == Response("none", FALSE, NULL, 0)

\* requests in flight are told apart by a slot number
FreeSlot ==
    CHOOSE i \in 1..(MaxInFlight + 1) : \A r \in inflight : r.slot # i

Request(caller, tenant, type, filename, storage) ==
    [slot |-> FreeSlot, caller |-> caller, tenant |-> tenant, type |-> type,
     filename |-> filename, storage |-> storage, sentAt |-> now,
     authorized |-> Truthy(token),
     key |-> buildAssetKey(tenant, type, filename),
     expiration |-> DEFAULT_EXPIRATION_MINUTES, beforeClear |-> FALSE]

(* What a call has returned so far: its arguments, whether its promise is  *)
(* pending or resolved and to what; history: the entry the lookup found,   *)
(* the request sent and the response that settled it, and whether          *)
(* getSignedImageUrl was called (asked).                                   *)
Returned(caller, tenant, type, filename, storage, status, value) ==
    [fn |-> caller, tenant |-> tenant, type |-> type, filename |-> filename,
     storage |-> storage, status |-> status, value |-> value, at |-> now,
     lookedUp |-> FALSE, cached |-> NoEntry, fromCache |-> FALSE,
     sent |-> FALSE, response |-> NoResponse, preferSignedUrl |-> TRUE,
     asked |-> FALSE]

\* getSignedImageUrl resolves to the signed url or null
SettleDirect(signedUrl, r) == signedUrl

\* if (signedUrl) return signedUrl; ... return buildProxyUrl(...)
SettleFallbackUnchecked(signedUrl, r) == signedUrl

SettleFallback(signedUrl, r) ==
    IF Truthy(signedUrl) THEN signedUrl
    ELSE buildProxyUrl(r.storage, r.tenant, r.type, CleanFilename(r.filename))

Settle(signedUrl, r) ==
    IF r.caller = "getSignedImageUrl" THEN SettleDirect(signedUrl, r)
    ELSE SettleFallback(signedUrl, r)

(* getSignedImageUrl up to its await: the r2 gate, the housekeeping pass   *)
(* taken with probability 0.1 (sweep), the lookup, and on a miss the       *)
(* signing request.                                                        *)
SigningStep(caller, tenant, type, filename, storage, sweep) ==
    LET cache == IF sweep THEN cleanExpiredCache(urlCache, now) ELSE urlCache
        cacheKey == getCacheKey(tenant, type, filename)
        cached == CacheGet(cache, cacheKey)
        r == Request(caller, tenant, type, filename, storage)
        base == [Returned(caller, tenant, type, filename, storage,
                          "pending", NULL) EXCEPT !.asked = TRUE]
    IN  IF usesPublicUrls
        THEN /\ ret' = [base EXCEPT !.status = "resolved",
                                    !.value = Settle(NULL, r)]
             /\ UNCHANGED << urlCache, inflight >>
        ELSE IF cached # NoEntry /\ isCacheValid(cached, now)
        THEN /\ ret' = [base EXCEPT !.status = "resolved",
                                    !.value = Settle(cached.url, r),
                                    !.lookedUp = TRUE, !.cached = cached,
                                    !.fromCache = TRUE]
             /\ urlCache' = cache
             /\ UNCHANGED << inflight >>
        ELSE /\ Cardinality(inflight) < MaxInFlight
             /\ inflight' = inflight \cup {r}
             /\ urlCache' = cache
             /\ ret' = [base EXCEPT !.lookedUp = TRUE, !.cached = cached,
                                    !.sent = TRUE]

GetSignedImageUrl(tenant, type, filename, sweep) ==
    /\ SigningStep("getSignedImageUrl", tenant, type, filename, NoStorage, sweep)
    /\ UNCHANGED << CDN_URL, cachedStorageConfig, currentTenant, token, out,
                    now, navPending >>

\* storage?.driver === 'gcs' && storage.use_signed_urls && preferSignedUrl
\* && typeof window !== 'undefined', then if (token) inside the try
SignedUrlWantedNoFlag(storage, options, lsThrows) ==
    /\ storage.driver = "gcs"
    /\ options.preferSignedUrl
    /\ ~lsThrows
    /\ Truthy(token)

SignedUrlWanted(storage, options, lsThrows) ==
    /\ storage.driver = "gcs"
    /\ storage.use_signed_urls
    /\ options.preferSignedUrl
    /\ ~lsThrows
    /\ Truthy(token)

(* options: {preferSignedUrl, tenant, storageConfig}; lsThrows: reading    *)
(* localStorage throws (getCurrentTenant then yields null, and the token   *)
(* read is caught by the try/catch around the signing)                     *)
GetImageUrlWithSignedFallback(type, filename, options, sweep, lsThrows) ==
    LET fn == "getImageUrlWithSignedFallback"
        tenant == OrElse(options.tenant,
                         IF lsThrows THEN NULL ELSE getCurrentTenant)
        storage == Coalesce(options.storageConfig, cachedStorageConfig)
        Done(value) ==
            /\ ret' = [Returned(fn, tenant, type, filename, storage,
                                "resolved", value)
                          EXCEPT !.preferSignedUrl = options.preferSignedUrl]
            /\ UNCHANGED << urlCache, inflight >>
    IN  /\ IF ~Truthy(filename) THEN Done(PLACEHOLDER_IMAGE)
           ELSE IF isFullUrl(filename) THEN Done(filename)
           ELSE IF ~Truthy(tenant) THEN Done(PLACEHOLDER_IMAGE)
           ELSE IF Truthy(CDN_URL)
                THEN Done(buildCdnUrl(storage, tenant, type,
                                      CleanFilename(filename)))
           ELSE IF storage.driver = "r2"
                THEN Done(buildR2Url(storage, tenant, type,
                                     CleanFilename(filename)))
           ELSE IF SignedUrlWanted(storage, options, lsThrows)
                THEN SigningStep(fn, tenant, type, filename, storage, sweep)
           ELSE Done(buildProxyUrl(storage, tenant, type,
                                   CleanFilename(filename)))
        /\ UNCHANGED << CDN_URL, cachedStorageConfig, currentTenant, token,
                        out, now, navPending >>

(* getImageUrl called beside the signing calls: it returns at once         *)
GetImageUrl(type, filename, options) ==
    LET tenantParam == IF options.kind = "new" THEN options.tenant ELSE NULL
        storageConfig == IF options.kind = "none" THEN NoStorage
                         ELSE options.storageConfig
    IN  /\ ret' = Returned("getImageUrl", OrElse(tenantParam, getCurrentTenant),
                           type, filename,
                           Coalesce(storageConfig, cachedStorageConfig),
                           "resolved", getImageUrl(type, filename, options))
        /\ UNCHANGED << CDN_URL, cachedStorageConfig, currentTenant, token,
                        out, now, urlCache, inflight, navPending >>

(* The signing request r ends in resp: fetchSignedUrl's result, the store  *)
(* of lines 152-157, the 401 handling of the response interceptor, and the *)
(* caller's continuation.                                                  *)
Deliver(r, resp) ==
    LET signedUrl == fetchSignedUrl(resp)
        entry == [key |-> getCacheKey(r.tenant, r.type, r.filename),
                  url |-> signedUrl,
                  expiresAt |-> now + ExpirationSeconds,
                  storedAt |-> now, issuedAt |-> resp.issuedAt]
    IN  /\ r \in inflight
        /\ now - r.sentAt <= TimeoutSeconds
        /\ resp.kind # "network" => now - r.sentAt < TimeoutSeconds
        /\ inflight' = inflight \ {r}
        /\ urlCache' = IF Truthy(signedUrl) THEN CacheSet(urlCache, entry)
                       ELSE urlCache
        /\ token' = IF resp.kind = "http401" THEN NULL ELSE token
        /\ navPending' = (navPending \/ resp.kind = "http401")
        /\ ret' = [Returned(r.caller, r.tenant, r.type, r.filename, r.storage,
                            "resolved", Settle(signedUrl, r))
                     EXCEPT !.sent = TRUE, !.response = resp,
                            !.asked = TRUE]
        /\ UNCHANGED << CDN_URL, cachedStorageConfig, currentTenant, out,
                        now >>

(* Any other request of the API client is answered 401: the response      *)
(* interceptor removes the token and sends the browser to the login page.  *)
ApiUnauthorized ==
    /\ token' = NULL
    /\ navPending' = TRUE
    /\ ret' = NoRet
    /\ UNCHANGED << CDN_URL, cachedStorageConfig, currentTenant, out, now,
                    urlCache, inflight >>

\* clearSignedUrlCache
ClearSignedUrlCache ==
    /\ urlCache' = << >>
    /\ ret' = NoRet
    /\ UNCHANGED << CDN_URL, cachedStorageConfig, currentTenant, token, out,
                    now, inflight, navPending >>

(* clearSignedUrlCache with its history kept: urlCache.clear() leaves the  *)
(* requests in flight alone; beforeClear, which nothing reads, marks those *)
(* that were sent before this clear.                                       *)
ClearSignedUrlCacheMarked ==
    /\ urlCache' = << >>
    /\ inflight' = {[r EXCEPT !.beforeClear = TRUE] : r \in inflight}
    /\ ret' = NoRet
    /\ UNCHANGED << CDN_URL, cachedStorageConfig, currentTenant, token, out,
                    now, navPending >>

\* the sign-in flow stores the token
Login ==
    /\ token = NULL
    /\ token' = "tok"
    /\ ret' = NoRet
    /\ UNCHANGED << CDN_URL, cachedStorageConfig, currentTenant, out, now,
                    urlCache, inflight, navPending >>

\* logout: removes the token and clears the signed-URL cache
Logout ==
    /\ token # NULL
    /\ token' = NULL
    /\ urlCache' = << >>
    /\ ret' = NoRet
    /\ UNCHANGED << CDN_URL, cachedStorageConfig, currentTenant, out, now,
                    inflight, navPending >>

\* window.location.href = loginPath takes effect: the page is loaded anew
\* and the module state starts over
PageLoad ==
    /\ navPending
    /\ navPending' = FALSE
    /\ urlCache' = << >>
    /\ inflight' = {}
    /\ cachedStorageConfig' = NoStorage
    /\ ret' = NoRet
    /\ UNCHANGED << CDN_URL, currentTenant, token, out, now >>

\* time passes; a request is settled by its timeout at the latest
Tick ==
    /\ now + TickStep <= MaxTime
    /\ \A r \in inflight : now + TickStep - r.sentAt <= TimeoutSeconds
    /\ now' = now + TickStep
    /\ ret' = NoRet
    /\ UNCHANGED << CDN_URL, cachedStorageConfig, currentTenant, token, out,
                    urlCache, inflight, navPending >>

SignTypes == {"product"}

SignFilenames == {"a.png", "/a.png"}

FallbackFilenames == {NULL, "", "https://img.example.com/x.png", "a.png", "/a.png"}

FallbackOptions ==
    {[preferSignedUrl |-> p, tenant |-> t, storageConfig |-> c] :
        p \in BOOLEAN, t \in {NULL, "acme"}, c \in {NoStorage, CfgGcsSigned}}

\* the options getImageUrl is called with beside the signing calls
ImageUrlOptions ==
    {NoOptions,
     [kind |-> "legacy", storageConfig |-> CfgR2, tenant |-> NULL],
     [kind |-> "new", storageConfig |-> CfgGcsSigned, tenant |-> "acme"]}

\* the entity types of the calls that send no request
CallTypes == {"product", "banner"}

\* the filenames from which no URL is composed
FixedFilenames == {NULL, "", "http://img.example.com/x.png",
                   "https://img.example.com/x.png"}

\* the endpoint signs for a request that carries the bearer token
Responses(r) ==
    Failures \cup
    {Signed(buildAssetKey(r.tenant, r.type, r.filename), t) :
        t \in IF r.authorized THEN IssueTimes(r.sentAt, now) ELSE {}}

\* the caller has taken the result of the last call
Return ==
    /\ ret # NoRet
    /\ ret' = NoRet
    /\ UNCHANGED << CDN_URL, cachedStorageConfig, currentTenant, token, out,
                    now, urlCache, inflight, navPending >>

\* one call is followed at a time: the next operation starts when the
\* result of the last one was taken
Idle == ret = NoRet

(* The cache over time: one asset of the store's page, configuration      *)
(* loaded, signed in, no CDN.                                              *)
Init ==
    /\ CDN_URL = ""
    /\ cachedStorageConfig = CfgGcsSigned
    /\ currentTenant = "acme"
    /\ token = "tok"
    /\ out = NoCall
    /\ now = 0
    /\ urlCache = << >>
    /\ inflight = {}
    /\ ret = NoRet
    /\ navPending = FALSE

Next ==
    \/ /\ Idle
       /\ \E sweep \in BOOLEAN :
             GetSignedImageUrl("acme", "product", "a.png", sweep)
    \/ /\ Idle
       /\ \E r \in inflight : \E resp \in Responses(r) : Deliver(r, resp)
    \/ Idle /\ \E c \in {CfgGcsSigned, CfgR2} : setStorageConfig(c)
    \/ Idle /\ Login
    \/ Idle /\ PageLoad
    \/ Idle /\ Tick
    \/ Return

Spec == Init /\ [][Next]_vars

(* The calls over their inputs at one instant: every CDN setting,          *)
(* configuration, tenant, option and response, and the session.           *)
InitCalls ==
    /\ CDN_URL \in {"", "https://cdn.example.com"}
    /\ cachedStorageConfig = NoStorage
    /\ currentTenant \in {NULL, "acme"}
    /\ token = NULL
    /\ out = NoCall
    /\ now = 0
    /\ urlCache = << >>
    /\ inflight = {}
    /\ ret = NoRet
    /\ navPending = FALSE

NextCalls ==
    \/ /\ Idle
       /\ \E c \in {CfgGcsSigned, CfgGcs, CfgR2} : setStorageConfig(c)
    \/ /\ Idle
       /\ \E type \in SignTypes, f \in SignFilenames, sweep \in BOOLEAN :
             GetSignedImageUrl("acme", type, f, sweep)
    \/ /\ Idle
       /\ \E type \in SignTypes, f \in FallbackFilenames,
             o \in FallbackOptions, sweep \in BOOLEAN, lsThrows \in BOOLEAN :
             GetImageUrlWithSignedFallback(type, f, o, sweep, lsThrows)
    \/ /\ Idle
       /\ \E type \in CallTypes \ SignTypes, f \in FixedFilenames,
             o \in FallbackOptions, sweep \in BOOLEAN :
             GetImageUrlWithSignedFallback(type, f, o, sweep, FALSE)
    \/ /\ Idle
       /\ \E type \in CallTypes, f \in FallbackFilenames \cup FixedFilenames,
             o \in ImageUrlOptions :
             GetImageUrl(type, f, o)
    \/ /\ Idle
       /\ \E r \in inflight : \E resp \in Responses(r) : Deliver(r, resp)
    \/ Idle /\ ApiUnauthorized
    \/ Idle /\ ClearSignedUrlCache
    \/ Idle /\ Login
    \/ Idle /\ Logout
    \/ Idle /\ PageLoad
    \/ Return

SpecCalls == InitCalls /\ [][NextCalls]_vars

(* cleanExpiredCache over cache states: up to MaxEntries entries, written  *)
(* within two clock steps of each other in any order of the Map, swept at  *)
(* any later instant.                                                      *)
MaxEntries == MAX_CACHE_SIZE + 2

StoreTimes == {0, TickStep, 2 * TickStep}

SweepEntry(i, t) ==
    LET filename == ToString(i) \o ".png"
    IN  [key |-> getCacheKey("acme", "product", filename),
         url |-> SignedUrl(buildAssetKey("acme", "product", filename), t),
         expiresAt |-> t + ExpirationSeconds,
         storedAt |-> t, issuedAt |-> t]

SweepCaches ==
    UNION {{[i \in 1..n |-> SweepEntry(i, f[i])] : f \in [1..n -> StoreTimes]} :
             n \in 0..MaxEntries}

Sweep ==
    /\ urlCache' = cleanExpiredCache(urlCache, now)
    /\ ret' = [fn |-> "cleanExpiredCache", before |-> urlCache, at |-> now]
    /\ UNCHANGED << CDN_URL, cachedStorageConfig, currentTenant, token, out,
                    now, inflight, navPending >>

InitSweep ==
    /\ CDN_URL = ""
    /\ cachedStorageConfig = CfgGcsSigned
    /\ currentTenant = "acme"
    /\ token = "tok"
    /\ out = NoCall
    /\ now = 2 * TickStep
    /\ urlCache \in SweepCaches
    /\ inflight = {}
    /\ ret = NoRet
    /\ navPending = FALSE

NextSweep ==
    \/ Idle /\ Sweep
    \/ Idle /\ Tick
    \/ Return

SpecSweep == InitSweep /\ [][NextSweep]_vars

(* getImageUrl called twice with the same arguments, the configuration    *)
(* loader, the tenant page, the session and the signed-URL cache at work   *)
(* between the two calls.  The record keeps what the module variables      *)
(* were at each call.                                                      *)
FirstGetImageUrl(type, filename, options) ==
    /\ out = NoCall
    /\ out' = [fn |-> "getImageUrl twice", type |-> type,
               filename |-> filename, options |-> options,
               result |-> getImageUrl(type, filename, options),
               config |-> cachedStorageConfig, tenant |-> currentTenant,
               again |-> FALSE, second |-> NULL,
               configAgain |-> NoStorage, tenantAgain |-> NULL]
    /\ UNCHANGED << cachedStorageConfig, currentTenant >>
    /\ BuildUnchanged

SecondGetImageUrl ==
    /\ out.fn = "getImageUrl twice"
    /\ ~out.again
    /\ out' = [out EXCEPT !.again = TRUE,
                 !.second = getImageUrl(out.type, out.filename, out.options),
                 !.configAgain = cachedStorageConfig,
                 !.tenantAgain = currentTenant]
    /\ UNCHANGED << cachedStorageConfig, currentTenant >>
    /\ BuildUnchanged

\* setStorageConfig between the two calls
SetStorageConfigBetween(config) ==
    /\ out.fn = "getImageUrl twice"
    /\ ~out.again
    /\ cachedStorageConfig' = config
    /\ UNCHANGED << CDN_URL, currentTenant, token, out, now, urlCache,
                    inflight, ret, navPending >>

\* the stored current tenant changes between the two calls
SetCurrentTenantBetween(t) ==
    /\ out.fn = "getImageUrl twice"
    /\ ~out.again
    /\ currentTenant' = t
    /\ UNCHANGED << CDN_URL, cachedStorageConfig, token, out, now, urlCache,
                    inflight, ret, navPending >>

PureOptions ==
    {NoOptions,
     [kind |-> "legacy", storageConfig |-> CfgR2, tenant |-> NULL],
     [kind |-> "new", storageConfig |-> NoStorage, tenant |-> "acme"],
     [kind |-> "new", storageConfig |-> CfgR2Folder, tenant |-> NULL],
     [kind |-> "new", storageConfig |-> CfgGcsSigned, tenant |-> "acme"]}

InitPure ==
    /\ CDN_URL \in {"", "https://cdn.example.com"}
    /\ cachedStorageConfig \in {NoStorage, CfgR2}
    /\ currentTenant \in {NULL, "acme"}
    /\ token = NULL
    /\ out = NoCall
    /\ now = 0
    /\ urlCache = << >>
    /\ inflight = {}
    /\ ret = NoRet
    /\ navPending = FALSE

NextPure ==
    \/ /\ out = NoCall
       /\ \E f \in {"", "a.png", "https://img.example.com/x.png"},
             o \in PureOptions :
             FirstGetImageUrl("product", f, o)
    \/ SecondGetImageUrl
    \/ \E c \in {CfgGcsSigned, CfgR2} : SetStorageConfigBetween(c)
    \/ \E t \in {"acme", "globex"} : SetCurrentTenantBetween(t)
    \/ Idle /\ GetSignedImageUrl("acme", "product", "a.png", FALSE)
    \/ /\ Idle
       /\ \E r \in inflight :
             \E resp \in {x \in Responses(r) : x.kind \in {"body", "network"}} :
                Deliver(r, resp)
    \/ Idle /\ Login
    \/ Return
    \/ Consume

SpecPure == InitPure /\ [][NextPure]_vars

-----------------------------------------------------------------------------
(* prefetchSignedUrls.  The call is followed in out: the images, those     *)
(* left to fetch, the results Map and, for every image to fetch, how far   *)
(* its getSignedImageUrl call has come.  What runs between two awaits is   *)
(* one step: the filter and the first batch; a response together with, if  *)
(* it settles the batch, the next batch.                                   *)

\* const BATCH_SIZE = 10, scaled
BATCH_SIZE == 2

\* the longest list: a full batch and one image more
MaxImages == BATCH_SIZE + 1

PrefetchImages == {[type |-> "product", filename |-> f] : f \in {"a.png", "b.png"}}

PrefetchLists == UNION {[1..n -> PrefetchImages] : n \in 0..MaxImages}

\* the key of the results Map: `${type}:${filename}`
ResultKey(img) == img.type \o ":" \o img.filename

\* results.set(key, url)
ResultsSet(results, key, url) ==
    {x \in results : x.key # key} \cup {[key |-> key, url |-> url]}

ValidInCacheAnyEntry(cache, tenant, img) ==
    CacheGet(cache, getCacheKey(tenant, img.type, img.filename)) # NoEntry

\* cached && isCacheValid(cached)
ValidInCache(cache, tenant, img) ==
    LET cached == CacheGet(cache, getCacheKey(tenant, img.type, img.filename))
    IN  cached # NoEntry /\ isCacheValid(cached, now)

\* the results the filter fills from the cache
RECURSIVE FilterResults(_, _, _)
FilterResults(cache, tenant, images) ==
    IF images = << >> THEN {}
    ELSE LET img == images[Len(images)]
             rest == FilterResults(cache, tenant,
                                   SubSeq(images, 1, Len(images) - 1))
             cached == CacheGet(cache, getCacheKey(tenant, img.type,
                                                   img.filename))
         IN  IF ValidInCache(cache, tenant, img)
             THEN ResultsSet(rest, ResultKey(img), cached.url)
             ELSE rest

\* the last index of toFetch.slice(i, i + BATCH_SIZE), indices from 1
BatchEnd(i, n) == IF i + BATCH_SIZE - 1 < n THEN i + BATCH_SIZE - 1 ELSE n

BatchSettledFirst(items, i, j) == \E k \in i..j : items[k].state = "done"

\* await Promise.all(promises)
BatchSettled(items, i, j) == \A k \in i..j : items[k].state = "done"

\* history: failed tells that the response was not a successful body with a url
Waiting == [state |-> "waiting", url |-> NULL, sent |-> FALSE,
            fromCache |-> FALSE, sentAt |-> 0, doneAt |-> 0, failed |-> FALSE]

\* getSignedImageUrl of one image up to its await, reading cache
LaunchItem(cache, tenant, img) ==
    LET cached == CacheGet(cache, getCacheKey(tenant, img.type, img.filename))
    IN  IF usesPublicUrls
        THEN [Waiting EXCEPT !.state = "done", !.doneAt = now]
        ELSE IF ValidInCache(cache, tenant, img)
        THEN [Waiting EXCEPT !.state = "done", !.url = cached.url,
                             !.fromCache = TRUE, !.doneAt = now]
        ELSE [Waiting EXCEPT !.state = "pending", !.sent = TRUE,
                             !.sentAt = now]

(* The batch that starts at i: batch.map calls getSignedImageUrl for each  *)
(* image in turn.  sweepAt is the first image whose call takes the         *)
(* housekeeping pass (0: none does); a pass repeated at the same instant   *)
(* changes nothing more.                                                   *)
Launch(st, cache, i, sweepAt) ==
    LET n == Len(st.toFetch)
        j == BatchEnd(i, n)
        swept == cleanExpiredCache(cache, now)
        CacheFor(k) == IF ~usesPublicUrls /\ sweepAt \in 1..k
                       THEN swept ELSE cache
        items == [k \in 1..n |->
                    IF k \in i..j
                    THEN LaunchItem(CacheFor(k), st.tenant, st.toFetch[k])
                    ELSE st.items[k]]
        hits == {k \in i..j : Truthy(items[k].url)}
        hitKeys == {ResultKey(st.toFetch[k]) : k \in hits}
        results == {x \in st.results : x.key \notin hitKeys} \cup
                   {[key |-> ResultKey(st.toFetch[k]), url |-> items[k].url] :
                       k \in hits}
    IN  [st |-> [st EXCEPT !.items = items, !.results = results, !.i = i],
         cache |-> CacheFor(j)]

\* for (let i = 0; i < toFetch.length; i += BATCH_SIZE), up to the next
\* batch that has to wait for a response
RECURSIVE Advance(_, _, _, _)
Advance(st, cache, i, sweepAt) ==
    IF i > Len(st.toFetch)
    THEN [st |-> [st EXCEPT !.status = "resolved", !.at = now],
          cache |-> cache]
    ELSE LET l == Launch(st, cache, i, sweepAt)
         IN  IF BatchSettled(l.st.items, i, BatchEnd(i, Len(st.toFetch)))
             THEN Advance(l.st, l.cache, i + BATCH_SIZE, sweepAt)
             ELSE l

\* the request of the k-th image to fetch
PrefetchSlot(k) == MaxInFlight + 1 + k

PrefetchRequest(st, k) ==
    [slot |-> PrefetchSlot(k), caller |-> "prefetchSignedUrls",
     tenant |-> st.tenant, type |-> st.toFetch[k].type,
     filename |-> st.toFetch[k].filename, storage |-> NoStorage,
     sentAt |-> now, authorized |-> Truthy(token),
     key |-> buildAssetKey(st.tenant, st.toFetch[k].type,
                           st.toFetch[k].filename),
     expiration |-> DEFAULT_EXPIRATION_MINUTES, beforeClear |-> FALSE]

NewRequests(before, after) ==
    {PrefetchRequest(after, k) :
        k \in {x \in 1..Len(after.toFetch) :
                  /\ before.items[x].state = "waiting"
                  /\ after.items[x].state = "pending"}}

PrefetchSignedUrls(tenant, images, sweepAt) ==
    LET NotCached(img) == ~ValidInCache(urlCache, tenant, img)
        toFetch == SelectSeq(images, NotCached)
        results == FilterResults(urlCache, tenant, images)
        st == [fn |-> "prefetchSignedUrls", tenant |-> tenant,
               images |-> images, toFetch |-> toFetch,
               items |-> [k \in 1..Len(toFetch) |-> Waiting],
               results |-> results, fromFilter |-> results,
               cacheAtCall |-> urlCache,
               status |-> "pending", i |-> 1, calledAt |-> now, at |-> now]
        adv == Advance(st, urlCache, 1, sweepAt)
    IN  /\ out = NoCall
        /\ out' = adv.st
        /\ urlCache' = adv.cache
        /\ inflight' = inflight \cup NewRequests(st, adv.st)
        /\ UNCHANGED << CDN_URL, cachedStorageConfig, currentTenant, token,
                        now, ret, navPending >>

\* the response to the request of one image of the call
DeliverPrefetch(r, resp, sweepAt) ==
    LET k == r.slot - PrefetchSlot(0)
        img == out.toFetch[k]
        signedUrl == fetchSignedUrl(resp)
        entry == [key |-> getCacheKey(r.tenant, r.type, r.filename),
                  url |-> signedUrl,
                  expiresAt |-> now + ExpirationSeconds,
                  storedAt |-> now, issuedAt |-> resp.issuedAt]
        cache == IF Truthy(signedUrl) THEN CacheSet(urlCache, entry)
                 ELSE urlCache
        st == [out EXCEPT !.items[k] = [@ EXCEPT !.state = "done",
                                                 !.url = signedUrl,
                                                 !.doneAt = now,
                                                 !.failed =
                                                    ~(/\ resp.kind = "body"
                                                      /\ resp.success
                                                      /\ Truthy(resp.url))],
                          !.results = IF Truthy(signedUrl)
                                      THEN ResultsSet(@, ResultKey(img), signedUrl)
                                      ELSE @]
        adv == IF BatchSettled(st.items, out.i, BatchEnd(out.i, Len(out.toFetch)))
               THEN Advance(st, cache, out.i + BATCH_SIZE, sweepAt)
               ELSE [st |-> st, cache |-> cache]
    IN  /\ out.fn = "prefetchSignedUrls"
        /\ r \in inflight
        /\ r.caller = "prefetchSignedUrls"
        /\ now - r.sentAt <= TimeoutSeconds
        /\ resp.kind # "network" => now - r.sentAt < TimeoutSeconds
        /\ out' = adv.st
        /\ urlCache' = adv.cache
        /\ inflight' = (inflight \ {r}) \cup NewRequests(st, adv.st)
        /\ token' = IF resp.kind = "http401" THEN NULL ELSE token
        /\ navPending' = (navPending \/ resp.kind = "http401")
        /\ UNCHANGED << CDN_URL, cachedStorageConfig, currentTenant, now, ret >>

\* the caller takes the Map the call resolved to
PrefetchReturn ==
    /\ out.fn = "prefetchSignedUrls"
    /\ out.status = "resolved"
    /\ out' = NoCall
    /\ UNCHANGED << CDN_URL, cachedStorageConfig, currentTenant, token, now,
                    urlCache, inflight, ret, navPending >>

\* the call starts two clock steps before the end of the run
PrefetchStart == MaxTime - 2 * TickStep

\* an entry written at Stale is no longer valid at PrefetchStart, one written
\* a clock step later is valid for one step more
Stale == PrefetchStart - (ExpirationSeconds - CACHE_BUFFER_SECONDS)

PrefetchEntry(filename, t) ==
    [key |-> getCacheKey("acme", "product", filename),
     url |-> SignedUrl(buildAssetKey("acme", "product", filename), t),
     expiresAt |-> t + ExpirationSeconds,
     storedAt |-> t, issuedAt |-> t]

\* what earlier calls left in the cache
PrefetchCaches ==
    {<< >>} \cup
    {<< PrefetchEntry("a.png", t) >> : t \in {Stale, Stale + TickStep}} \cup
    {<< PrefetchEntry("b.png", Stale + TickStep), PrefetchEntry("a.png", t) >> :
        t \in {Stale, Stale + TickStep}}

\* the responses to a request of the call: signed on arrival, refused, or
\* none in time
PrefetchResponses(r) ==
    {x \in Responses(r) :
        \/ x.kind = "network"
        \/ x.kind = "body" /\ x.success /\ Truthy(x.url) /\ x.issuedAt = now
        \/ x.kind = "body" /\ ~x.success /\ Truthy(x.url)}

InitPrefetch ==
    /\ CDN_URL = ""
    /\ cachedStorageConfig \in {CfgGcsSigned, CfgR2}
    /\ currentTenant = "acme"
    /\ token = "tok"
    /\ out = NoCall
    /\ now = PrefetchStart
    /\ urlCache \in PrefetchCaches
    /\ inflight = {}
    /\ ret = NoRet
    /\ navPending = FALSE

NextPrefetch ==
    \/ \E images \in PrefetchLists, sweepAt \in 0..1 :
          PrefetchSignedUrls("acme", images, sweepAt)
    \/ \E r \in inflight : \E resp \in PrefetchResponses(r) :
          \E sweepAt \in 0..1 : DeliverPrefetch(r, resp, sweepAt)
    \/ PrefetchReturn
    \/ Tick

SpecPrefetch == InitPrefetch /\ [][NextPrefetch]_vars

-----------------------------------------------------------------------------
(* The signing calls of one page over its last clock steps: the two        *)
(* spellings of one asset, any response, the cache cleared at any moment.  *)
InitSign ==
    /\ CDN_URL = ""
    /\ cachedStorageConfig = CfgGcsSigned
    /\ currentTenant = "acme"
    /\ token = "tok"
    /\ out = NoCall
    /\ now = PrefetchStart
    /\ urlCache = << >>
    /\ inflight = {}
    /\ ret = NoRet
    /\ navPending = FALSE

NextSign ==
    \/ /\ Idle
       /\ \E f \in SignFilenames, sweep \in BOOLEAN :
             GetSignedImageUrl("acme", "product", f, sweep)
    \/ /\ Idle
       /\ \E r \in inflight : \E resp \in Responses(r) : Deliver(r, resp)
    \/ Idle /\ ClearSignedUrlCacheMarked
    \/ Idle /\ Tick
    \/ Return

SpecSign == InitSign /\ [][NextSign]_vars

-----------------------------------------------------------------------------
(* use-signed-image-url.ts: useSignedImageUrl. The hook's state is held in *)
(* out: its props, its useState cells, and as history the loads it has     *)
(* started, in order, each pending or done with the URL it resolved to.    *)

MaxLoads == 3

HookTypes == {"product"}

HookFilenames == {NULL, "a.png", "b.png"}

\* the promise of getImageUrlWithSignedFallback of src/lib/utils/image.ts
\* resolves to one of these
utilsFallbackResults(type, filename, options) ==
    IF ~Truthy(filename) THEN {PLACEHOLDER_IMAGE}
    ELSE IF isFullUrl(filename) THEN {filename}
    ELSE
      LET tenant == OrElse(options.tenant, getCurrentTenant)
          storage == Coalesce(options.storageConfig, cachedStorageConfig)
          cleanFilename == CleanFilename(filename)
          proxy == utilsBuildProxyUrl(tenant, type, cleanFilename)
      IN  IF ~Truthy(tenant) THEN {PLACEHOLDER_IMAGE}
          ELSE IF Truthy(CDN_URL)
               THEN {utilsBuildCdnUrl(storage, tenant, type, cleanFilename)}
          ELSE IF storage.driver = "r2"
               THEN {utilsBuildR2Url(storage, tenant, type, cleanFilename)}
          ELSE IF /\ storage.driver = "gcs"
                  /\ storage.use_signed_urls
                  /\ options.preferSignedUrl
                  /\ Truthy(token)
               THEN {SignedUrl(buildAssetKey(tenant, type, filename), now),
                     proxy}
          ELSE {proxy}

HookOptions(hook) ==
    [kind |-> "new", storageConfig |-> NoStorage, tenant |-> hook.tenant]

Load(type, filename, state, url) ==
    [type |-> type, filename |-> filename, state |-> state, url |-> url]

\* loadSignedUrl up to its await (or to its return)
loadSignedUrl(hook) ==
    IF ~Truthy(hook.filename)
    THEN [hook EXCEPT !.imageUrl = hook.fallbackUrl,
                      !.isSignedUrl = FALSE,
                      !.loads = Append(@, Load(hook.type, hook.filename,
                                               "done", hook.fallbackUrl))]
    ELSE IF usesPublicUrls \/ ~hook.useSignedUrl
    THEN LET url == utilsGetImageUrl(hook.type, hook.filename,
                                     HookOptions(hook))
         IN  [hook EXCEPT !.imageUrl = url,
                          !.isSignedUrl = FALSE,
                          !.loads = Append(@, Load(hook.type, hook.filename,
                                                   "done", url))]
    ELSE [hook EXCEPT !.isLoading = TRUE,
                      !.error = NULL,
                      !.loads = Append(@, Load(hook.type, hook.filename,
                                               "pending", NULL))]

HookUnchanged ==
    UNCHANGED << CDN_URL, cachedStorageConfig, currentTenant, token, now,
                 urlCache, inflight, ret, navPending >>

\* the first render and the effect that follows it
UseSignedImageUrl(type, filename, useSignedUrl) ==
    /\ out = NoCall
    /\ out' = loadSignedUrl(
                [fn |-> "useSignedImageUrl", type |-> type,
                 filename |-> filename, tenant |-> "acme",
                 useSignedUrl |-> useSignedUrl,
                 fallbackUrl |-> PLACEHOLDER_IMAGE,
                 imageUrl |-> IF Truthy(filename)
                              THEN utilsGetImageUrl(type, filename,
                                     [kind |-> "new", storageConfig |-> NoStorage,
                                      tenant |-> "acme"])
                              ELSE PLACEHOLDER_IMAGE,
                 isLoading |-> FALSE, error |-> NULL, isSignedUrl |-> FALSE,
                 loads |-> << >>])
    /\ HookUnchanged

\* a render with another (type, filename): loadSignedUrl is made anew and
\* the effect runs it
Rerender(type, filename) ==
    /\ out # NoCall
    /\ << type, filename >> # << out.type, out.filename >>
    /\ Len(out.loads) < MaxLoads
    /\ out' = loadSignedUrl([out EXCEPT !.type = type, !.filename = filename])
    /\ HookUnchanged

\* refresh(): refreshKey changes and the effect runs loadSignedUrl again
Refresh ==
    /\ out # NoCall
    /\ Len(out.loads) < MaxLoads
    /\ out' = loadSignedUrl(out)
    /\ HookUnchanged

\* the await of the i-th load returns: setImageUrl, setIsSignedUrl and, in
\* the finally, setIsLoading(false)
LoadSettles(i, url) ==
    /\ out # NoCall
    /\ i \in 1..Len(out.loads)
    /\ out.loads[i].state = "pending"
    /\ out' = [out EXCEPT !.imageUrl = url,
                          !.isSignedUrl = \/ Includes(url, "X-Goog-")
                                          \/ Includes(url, "storage.googleapis.com"),
                          !.isLoading = FALSE,
                          !.loads[i] = Load(@.type, @.filename, "done", url)]
    /\ HookUnchanged

\* the component is unmounted once nothing is in flight
Unmount ==
    /\ out # NoCall
    /\ \A i \in 1..Len(out.loads) : out.loads[i].state = "done"
    /\ out' = NoCall
    /\ HookUnchanged

InitHook ==
    /\ CDN_URL = ""
    /\ cachedStorageConfig \in {CfgGcsSigned, CfgR2}
    /\ currentTenant = "acme"
    /\ token \in {NULL, "tok"}
    /\ out = NoCall
    /\ now = 0
    /\ urlCache = << >>
    /\ inflight = {}
    /\ ret = NoRet
    /\ navPending = FALSE

NextHook ==
    \/ \E type \in HookTypes, f \in HookFilenames, u \in BOOLEAN :
          UseSignedImageUrl(type, f, u)
    \/ \E type \in HookTypes, f \in HookFilenames : Rerender(type, f)
    \/ Refresh
    \/ \E i \in 1..MaxLoads :
          /\ out # NoCall
          /\ i <= Len(out.loads)
          /\ \E url \in utilsFallbackResults(
                          out.loads[i].type, out.loads[i].filename,
                          [preferSignedUrl |-> out.useSignedUrl,
                           tenant |-> out.tenant,
                           storageConfig |-> NoStorage]) :
                LoadSettles(i, url)
    \/ Unmount

SpecHook == InitHook /\ [][NextHook]_vars

-----------------------------------------------------------------------------
(* useCartActions and useStoreStatus. out holds the store's config state,  *)
(* the status the last render computed from it, the cart, and what the     *)
(* last call of addToCart did.                                             *)

MaxCart == 2

NoConfig == [loaded |-> FALSE, hasBranches |-> FALSE, branches |-> << >>]

Config(branches) == [loaded |-> TRUE, hasBranches |-> TRUE, branches |-> branches]

\* a loaded config without the branches field
ConfigNoBranches == [loaded |-> TRUE, hasBranches |-> FALSE, branches |-> << >>]

\* is_open as the API sent it: a boolean, or missing
Some(v) == [has |-> TRUE, v |-> v]
Missing == [has |-> FALSE, v |-> FALSE]

Branch(is_open, is_temporarily_closed, next_opening_time) ==
    [is_open |-> is_open, is_temporarily_closed |-> is_temporarily_closed,
     next_opening_time |-> next_opening_time]

Branches ==
    {Branch(o, c, t) : o \in {Some(TRUE), Some(FALSE), Missing}, c \in BOOLEAN,
                       t \in {NULL, "2026-01-05T09:00"}}

ConfigStates ==
    {NoConfig, ConfigNoBranches, Config(<< >>)}
    \cup {Config(<< b >>) : b \in Branches}
    \cup {Config(<< b, Branch(Some(o), FALSE, NULL) >>) :
            b \in Branches, o \in BOOLEAN}

useStoreStatusAnyBranch(config) ==
    [isOpen |-> \/ ~config.loaded
                \/ \E i \in 1..Len(config.branches) :
                      config.branches[i].is_open # Some(FALSE),
     isTemporarilyClosed |-> FALSE,
     nextOpeningTime |-> NULL]

useStoreStatus(config) ==
    IF ~config.loaded \/ ~config.hasBranches \/ Len(config.branches) = 0
    THEN [isOpen |-> TRUE, isTemporarilyClosed |-> FALSE,
          nextOpeningTime |-> NULL]
    ELSE LET branch == config.branches[1]
         IN  [isOpen |-> IF branch.is_open.has THEN branch.is_open.v
                         ELSE TRUE,
              isTemporarilyClosed |-> branch.is_temporarily_closed,
              nextOpeningTime |-> branch.next_opening_time]

\* dispatch(addToCartAction(payload)): the cart is taken as the add-to-cart
\* actions the store has received, in order
addToCartAction(cart, payload) == Append(cart, payload)

NoAdd == [payload |-> NULL, returned |-> FALSE, toast |-> "none"]

CartUnchanged ==
    UNCHANGED << CDN_URL, cachedStorageConfig, currentTenant, token, now,
                 urlCache, inflight, ret, navPending >>

\* the component that uses the hook is mounted
UseCartActions(config) ==
    /\ out = NoCall
    /\ out' = [fn |-> "useCartActions", config |-> config,
               status |-> useStoreStatus(config),
               canAddToCart |-> useStoreStatus(config).isOpen,
               cart |-> << >>, last |-> NoAdd]
    /\ CartUnchanged

\* the config state of the store changes and the component renders again
ConfigChanges(config) ==
    /\ out # NoCall
    /\ config # out.config
    /\ out' = [out EXCEPT !.config = config,
                          !.status = useStoreStatus(config),
                          !.canAddToCart = useStoreStatus(config).isOpen,
                          !.last = NoAdd]
    /\ CartUnchanged

\* addToCart(payload) of the last render
AddToCart(payload) ==
    /\ out # NoCall
    /\ Len(out.cart) < MaxCart
    /\ out' = IF ~out.status.isOpen
              THEN [out EXCEPT !.last = [payload |-> payload,
                                         returned |-> FALSE,
                                         toast |-> "error"]]
              ELSE [out EXCEPT !.cart = addToCartAction(@, payload),
                               !.last = [payload |-> payload,
                                         returned |-> TRUE,
                                         toast |-> "success"]]
    /\ CartUnchanged

InitCart ==
    /\ CDN_URL = ""
    /\ cachedStorageConfig = NoStorage
    /\ currentTenant = "acme"
    /\ token = NULL
    /\ out = NoCall
    /\ now = 0
    /\ urlCache = << >>
    /\ inflight = {}
    /\ ret = NoRet
    /\ navPending = FALSE

NextCart ==
    \/ \E c \in {NoConfig, ConfigNoBranches} : UseCartActions(c)
    \/ \E c \in ConfigStates : ConfigChanges(c)
    \/ \E p \in {"p1", "p2"} : AddToCart(p)

SpecCart == InitCart /\ [][NextCart]_vars

-----------------------------------------------------------------------------
(* What the claims about the builders read off a recorded call             *)

\* the CDN base URL with one trailing slash removed
CdnRoot == IF CDN_URL = "https://cdn.example.com/" THEN "https://cdn.example.com"
           ELSE CDN_URL

\* the filenames among the inputs that match ^\d+\.\w+$
NewFormatNames == {"0.jpg", "12.webp", "1.png"}

IsCardCall == out.fn \in {"getEntityCardImageUrl", "CanonicalProductPage"}

\* the filename a card builder was given (the entity's first / selected image)
CardFilename ==
    IF out.fn = "getEntityCardImageUrl" THEN FirstImage(out.entity.image)
    ELSE LET items == out.product.image.items
             at(i) == IF i + 1 <= Len(items) THEN items[i + 1] ELSE NULL
         IN  IF Truthy(at(out.selectedImageIndex)) THEN at(out.selectedImageIndex)
             ELSE at(0)

CardType == IF out.fn = "getEntityCardImageUrl" THEN out.type ELSE "product"

\* the publicId a card builder was given
CardPublicId ==
    IF out.fn = "getEntityCardImageUrl"
    THEN IF out.entity.publicId # NULL THEN out.entity.publicId
         ELSE out.entity.public_id
    ELSE out.product.publicId

CardTenant ==
    IF out.fn = "getEntityCardImageUrl"
    THEN IF Truthy(out.options.tenant) THEN out.options.tenant ELSE currentTenant
    ELSE out.tenant

CardStorage ==
    LET given == IF out.fn = "getEntityCardImageUrl"
                 THEN out.options.storageConfig ELSE out.storageConfig
    IN  IF given = NoStorage THEN cachedStorageConfig ELSE given

FolderOrTenant(storage, tenant) ==
    IF Truthy(storage.storage_folder) THEN storage.storage_folder ELSE tenant

StripSlash(f) == IF StartsWith(f, "/") THEN SubSeq(f, 2, Len(f)) ELSE f

PrefixLetter(type) == IF type = "product" THEN "p" ELSE "c"

\* a filename from which a URL is composed: non-empty and not absolute
Composable(f) ==
    /\ Truthy(f)
    /\ ~StartsWith(f, "http://")
    /\ ~StartsWith(f, "https://")

\* the arguments of a recorded getImageUrl call
GivenTenant ==
    IF out.options.kind = "new" /\ Truthy(out.options.tenant)
    THEN out.options.tenant ELSE currentTenant

GivenStorage ==
    IF out.options.kind = "none" \/ out.options.storageConfig = NoStorage
    THEN cachedStorageConfig ELSE out.options.storageConfig

-----------------------------------------------------------------------------
(* What the claims about the cache read off a call                         *)

\* the signing request ended in anything but a successful body with a url
SigningFailed(resp) ==
    /\ resp.kind # "none"
    /\ ~(resp.kind = "body" /\ resp.success /\ Truthy(resp.url))

IsFallback == ret.fn = "getImageUrlWithSignedFallback"

IsSigned == ret.fn = "getSignedImageUrl"

ProxyUrl(storage, tenant, type, filename) ==
    API_BASE_URL \o "/" \o tenant \o "/storage/gcs/img/tenants/"
        \o FolderOrTenant(storage, tenant) \o "/" \o type \o "/"
        \o StripSlash(filename)

\* the entries of a cache
Entries(cache) == {cache[i] : i \in 1..Len(cache)}

\* this step is a call of getSignedImageUrl that reaches the lookup
LookupStep == ret = NoRet /\ ret'.fn = "getSignedImageUrl" /\ ret'.lookedUp

\* this step settles a signing request
DeliverStep == ret = NoRet /\ ret'.fn # "none" /\ ret'.response.kind # "none"

-----------------------------------------------------------------------------
(* C1: getImageUrlWithSignedFallback never rejects: whatever the input and
   whatever the signing endpoint does (network error, non-2xx status,
   non-success body, success without a url), a settled call has resolved to
   a string; and when the signing request failed for a non-empty,
   non-absolute filename with a known tenant, that string is the proxy URL
   {apiBaseUrl}/{tenant}/storage/gcs/img/tenants/{storageFolderOrTenant}/
   {type}/{filename}, the filename without its leading slash. *)
C1_FallbackResolves ==
    IsFallback =>
      /\ ret.status \in {"pending", "resolved"}
      /\ ret.status = "pending" => ret.sent
      /\ ret.status = "resolved" =>
           /\ ret.value # NULL
           /\ Len(ret.value) > 0
           /\ (/\ SigningFailed(ret.response)
               /\ Composable(ret.filename)
               /\ Truthy(ret.tenant)) =>
                ret.value = ProxyUrl(ret.storage, ret.tenant, ret.type,
                                     ret.filename)

C1_Witness ==
    /\ IsFallback
    /\ ret.status = "resolved"
    /\ ret.response.kind = "network"
    /\ ret.filename = "/a.png"
    /\ ret.storage = CfgGcsSigned
    /\ ret.value = "http://localhost:80/acme/storage/gcs/img/tenants/schema1/product/a.png"

(* C2 as stated: a signed URL that getSignedImageUrl returns from the cache
   has at least the renewal buffer of 60 s left of the 10 minutes that began
   when the signer issued it.  Refuted: the entry's expiry is counted from
   the moment the response was stored. *)
C2_CachedUrlHasBuffer ==
    (IsSigned /\ ret.fromCache) =>
      ret.cached.issuedAt + ExpirationSeconds - ret.at >= CACHE_BUFFER_SECONDS

(* C3: cache round trip.  When a signing call for key k has succeeded, its
   URL u is stored under k; a call for k that reaches the lookup before
   (store time + TTL - 60 s), the instant of the store included, returns u
   and sends no request; a call at or after that instant treats the entry as
   absent and sends a new signing request. *)
C3_RoundTrip ==
    [][/\ DeliverStep /\ ~SigningFailed(ret'.response) =>
            LET e == CacheGet(urlCache', getCacheKey(ret'.tenant, ret'.type,
                                                    ret'.filename))
            IN  e.url = ret'.response.url /\ e.storedAt = now
       /\ LookupStep =>
            \A e \in Entries(urlCache) :
               e.key = getCacheKey(ret'.tenant, ret'.type, ret'.filename) =>
                 IF now < e.storedAt + ExpirationSeconds - CACHE_BUFFER_SECONDS
                 THEN /\ ret'.status = "resolved"
                      /\ ret'.value = e.url
                      /\ inflight' = inflight
                 ELSE /\ ret'.status = "pending"
                      /\ Cardinality(inflight') = Cardinality(inflight) + 1
      ]_vars

\* the entry is one step short of its expiry, within the buffer, and the
\* call has sent a new request
C3_Witness ==
    /\ IsSigned
    /\ ret.lookedUp
    /\ ret.cached # NoEntry
    /\ ret.at = ret.cached.storedAt + ExpirationSeconds - TickStep
    /\ ret.sent
    /\ ret.status = "pending"

(* C4: eviction.  When the cache holds MAX_CACHE_SIZE + k unexpired entries
   (k > 0) and cleanExpiredCache runs, exactly MAX_CACHE_SIZE entries remain,
   and every removed entry has an expiresAt less than or equal to that of
   every retained entry. *)
C4_Eviction ==
    (/\ ret.fn = "cleanExpiredCache"
     /\ Cardinality({e \in Entries(ret.before) : ret.at < e.expiresAt})
           > MAX_CACHE_SIZE) =>
       /\ Len(urlCache) = MAX_CACHE_SIZE
       /\ Entries(urlCache) \subseteq Entries(ret.before)
       /\ \A r \in Entries(ret.before) \ Entries(urlCache) :
             \A e \in Entries(urlCache) : r.expiresAt <= e.expiresAt

\* four unexpired entries, the latest-expiring ones first in the Map
C4_Witness ==
    /\ ret.fn = "cleanExpiredCache"
    /\ Len(ret.before) = MAX_CACHE_SIZE + 2
    /\ ret.at < ret.before[Len(ret.before)].expiresAt
    /\ ret.before[1].expiresAt > ret.before[Len(ret.before)].expiresAt
    /\ ret.before[1].expiresAt > ret.before[Len(ret.before) - 1].expiresAt
    /\ Len(urlCache) = MAX_CACHE_SIZE
    /\ urlCache[1] = ret.before[1]

(* C5: immediately after a run of cleanExpiredCache, from any cache state,
   the cache contains no entry with expiresAt <= now and at most
   MAX_CACHE_SIZE entries. *)
C5_AfterSweep ==
    ret.fn = "cleanExpiredCache" =>
      /\ \A e \in Entries(urlCache) : ~(e.expiresAt <= now)
      /\ Len(urlCache) <= MAX_CACHE_SIZE

\* the run removed expired entries and evicted unexpired ones
C5_Witness ==
    /\ ret.fn = "cleanExpiredCache"
    /\ \E e \in Entries(ret.before) : e.expiresAt <= ret.at
    /\ Cardinality({e \in Entries(ret.before) : ret.at < e.expiresAt})
          > MAX_CACHE_SIZE
    /\ Len(urlCache) = MAX_CACHE_SIZE

\* the (tenant, type, filename) triples the calls sign
SignedNames ==
    {<< "acme", type, f >> : type \in SignTypes,
                             f \in SignFilenames \cup FallbackFilenames}

(* C6: in every reachable state each cache entry holds a non-empty url that
   is the one the signer issued for the asset of the entry's key; and an
   entry is created or overwritten only in the step in which a signing
   request for its key is answered with success and a non-empty url, and
   with that url: no failed, pending or skipped request writes an entry. *)
C6_EntriesFromSuccess ==
    /\ [](\A e \in Entries(urlCache) :
             /\ Truthy(e.url)
             /\ \E n \in SignedNames :
                   /\ e.key = getCacheKey(n[1], n[2], n[3])
                   /\ e.url = SignedUrl(buildAssetKey(n[1], n[2], n[3]),
                                        e.issuedAt))
    /\ [][\A e \in Entries(urlCache') \ Entries(urlCache) :
             /\ DeliverStep
             /\ ret'.response.kind = "body"
             /\ ret'.response.success
             /\ Truthy(ret'.response.url)
             /\ e.url = ret'.response.url
             /\ e.key = getCacheKey(ret'.tenant, ret'.type, ret'.filename)
         ]_vars

\* an entry written by the fallback's request, after a failed request that
\* left the cache alone
C6_Witness ==
    /\ IsFallback
    /\ ret.response = Signed("tenants/acme/product/a.png", 0)
    /\ Len(urlCache) = 1
    /\ urlCache[1].key = "acme:product:/a.png"
    /\ urlCache[1].url = ret.value

(* C7 as stated: whenever the session ends (logout, or the 401 handler of
   the API client removes the stored token) the signed-URL cache is emptied.
   Refuted: the 401 handler removes the token and leaves the cache. *)
C7_SessionEndEmptiesCache ==
    [][(token # NULL /\ token' = NULL) => urlCache' = << >>]_vars

\* this step is a call of getImageUrl or of the fallback
BuilderStep ==
    /\ ret = NoRet
    /\ ret'.fn \in {"getImageUrl", "getImageUrlWithSignedFallback"}
    /\ ret'.at = now
    /\ ret'.response.kind = "none"

IsBuilder == ret.fn \in {"getImageUrl", "getImageUrlWithSignedFallback"}

(* C11: for a null, undefined or empty filename, getImageUrl and
   getImageUrlWithSignedFallback return the placeholder '/placeholder.svg',
   for every driver, entity type, CDN setting and tenant; the call has
   resolved at once, sends no signing request and neither reads nor writes
   the cache. *)
C11_EmptyFilenamePlaceholder ==
    /\ []((IsBuilder /\ ~Truthy(ret.filename)) =>
             /\ ret.status = "resolved"
             /\ ret.value = "/placeholder.svg"
             /\ ~ret.sent
             /\ ~ret.lookedUp)
    /\ [][(BuilderStep /\ ~Truthy(ret'.filename)) =>
             UNCHANGED << urlCache, inflight >>]_vars

\* the fallback with an empty filename, signing enabled and a session, the
\* cache holding an expired-or-not entry it does not touch
C11_Witness ==
    /\ ret.fn = "getImageUrlWithSignedFallback"
    /\ ret.filename = ""
    /\ ret.storage = CfgGcsSigned
    /\ ret.tenant = "acme"
    /\ token # NULL
    /\ CDN_URL = ""
    /\ Len(urlCache) > 0
    /\ ret.value = "/placeholder.svg"

(* C12 as stated: for a filename that starts with 'http://' or 'https://'
   the builders return the filename unchanged, whatever the entity type,
   tenant, driver, CDN setting and publicId.  getImageUrl and the card
   builders do; getPublicIdImageUrl, given a publicId and a type with a
   prefix, composes a URL around the filename. *)
C12_AbsoluteUnchanged ==
    /\ (out.fn = "getImageUrl" /\ Truthy(out.filename)
        /\ isFullUrl(out.filename)) => out.result = out.filename
    /\ (IsCardCall /\ Truthy(CardFilename) /\ isFullUrl(CardFilename)) =>
          out.result = CardFilename
    /\ (out.fn = "getPublicIdImageUrl" /\ ~out.indexOrFilename.isNum
        /\ isFullUrl(out.indexOrFilename.s)
        /\ Truthy(out.publicId) /\ out.type \in {"product", "category"}) =>
          out.result = out.indexOrFilename.s

(* C13 as stated: two getImageUrl calls with identical arguments return   *)
(* the identical string whatever ran between them (setStorageConfig, a    *)
(* change of the stored tenant, cache activity).                          *)
CalledTwice == out.fn = "getImageUrl twice" /\ out.again
GetImageUrlStep ==
    /\ out' # out
    /\ out'.fn = "getImageUrl twice"

C14_R2Url ==
    (/\ out.fn = "getImageUrl"
     /\ CDN_URL = ""
     /\ Composable(out.filename)
     /\ Truthy(GivenTenant)
     /\ GivenStorage.driver = "r2"
     /\ Truthy(GivenStorage.public_url))
    => out.result = GivenStorage.public_url \o "/"
                      \o (IF Truthy(GivenStorage.path_prefix)
                          THEN GivenStorage.path_prefix ELSE "img")
                      \o "/tenants/" \o FolderOrTenant(GivenStorage, GivenTenant)
                      \o "/" \o out.type \o "/" \o StripSlash(out.filename)

(* C15: getImageUrlWithSignedFallback sends a signing request only when   *)
(* no CDN is configured, the effective driver is gcs, use_signed_urls and *)
(* preferSignedUrl are true and a session token is stored; when one of    *)
(* them fails no request is sent and the cache is not consulted.          *)
SigningAllowed(r) ==
    /\ CDN_URL = ""
    /\ r.storage.driver = "gcs"
    /\ r.storage.use_signed_urls
    /\ r.preferSignedUrl
    /\ Truthy(token)

C15_SigningOnlyWhenAllowed ==
    /\ []((IsFallback /\ ret.at = now /\ ret.response.kind = "none"
             /\ ~SigningAllowed(ret)) =>
                /\ ~ret.sent /\ ~ret.lookedUp /\ ~ret.fromCache
                /\ ret.status = "resolved")
    /\ [][(BuilderStep /\ ret'.fn = "getImageUrlWithSignedFallback"
             /\ ~SigningAllowed(ret')) =>
                UNCHANGED << urlCache, inflight >>]_vars

C15_Witness ==
    /\ IsFallback
    /\ ret.sent
    /\ ret.status = "pending"
    /\ SigningAllowed(ret)
    /\ \E r \in inflight : r.caller = "getImageUrlWithSignedFallback"

\* the signing is refused for the driver alone, with a token and a filled cache
C15_WitnessRefused ==
    /\ IsFallback
    /\ ret.storage = CfgGcs
    /\ ret.preferSignedUrl
    /\ Truthy(token)
    /\ CDN_URL = ""
    /\ Composable(ret.filename)
    /\ Truthy(ret.tenant)
    /\ Len(urlCache) > 0
    /\ ~ret.sent

\* {cdn}/{pathPrefix}/tenants/{storageFolderOrTenant}/{type}/{filename}
CdnTenantUrl(storage, tenant, type, f) ==
    CdnRoot \o "/"
      \o (IF Truthy(storage.path_prefix) THEN storage.path_prefix ELSE "img")
      \o "/tenants/" \o FolderOrTenant(storage, tenant) \o "/" \o type \o "/"
      \o StripSlash(f)

\* {cdn}/{pathPrefix}/{prefixLetter}/{publicId}/{filename}
CdnPublicIdUrl(storage, type, publicId, f) ==
    CdnRoot \o "/"
      \o (IF Truthy(storage.path_prefix) THEN storage.path_prefix ELSE "img")
      \o "/" \o PrefixLetter(type) \o "/" \o publicId \o "/" \o f

\* a filename from which a URL is composed, with at most one leading '/'
Plain(f) == Composable(f) /\ ~StartsWith(f, "//")

C16_WitnessLegacy ==
    /\ out.fn = "getImageUrl"
    /\ CDN_URL = "https://cdn.example.com"
    /\ GivenStorage = CfgGcsSigned
    /\ out.filename = "/logo.png"
    /\ out.result = "https://cdn.example.com/img/tenants/schema1/"
                      \o out.type \o "/logo.png"

\* this step is a call of getSignedImageUrl
SignedCallStep ==
    /\ ret = NoRet
    /\ ret'.fn = "getSignedImageUrl"
    /\ ret'.response.kind = "none"

\* the cache holds an entry for the key of the call that is still valid
ValidEntryFor(r) ==
    \E e \in Entries(urlCache) :
       /\ e.key = r.tenant \o ":" \o r.type \o ":" \o r.filename
       /\ now < e.storedAt + ExpirationSeconds - CACHE_BUFFER_SECONDS

SentOne == \E r \in inflight' \ inflight : inflight' = inflight \cup {r}

\* no request is sent outside a call: there are no retries
NoRetry ==
    /\ DeliverStep => \E r \in inflight : inflight' = inflight \ {r}
    /\ (~DeliverStep /\ ~SignedCallStep) => inflight' \subseteq inflight

C17_WitnessR2 ==
    /\ IsSigned
    /\ cachedStorageConfig.driver = "r2"
    /\ ret.response.kind = "none"
    /\ ret.value = NULL
    /\ ValidEntryFor(ret)

(* The getSignedImageUrl calls that batch.map starts for one image named  *)
(* more than once in a batch run concurrently: all of them start before   *)
(* the first response.                                                    *)
\* the calls of the batch of k that are for the same image and sent a request
Concurrent(k) ==
    {j \in 1..Len(out.toFetch) :
        /\ (j - 1) \div BATCH_SIZE = (k - 1) \div BATCH_SIZE
        /\ out.toFetch[j] = out.toFetch[k]
        /\ out.items[j].sent}

Succeeded(group) == {j \in group : out.items[j].state = "done" /\ ~out.items[j].failed}

Completed(group) == \A j \in group : out.items[j].state = "done"

LastOf(times) == CHOOSE t \in times : \A u \in times : u <= t

(* C18: concurrent getSignedImageUrl calls for one key are not            *)
(* deduplicated, each sends its own request; and whatever the order of    *)
(* their completions, once all have completed and at least one has        *)
(* succeeded the cache holds for the key the url returned by the last     *)
(* success, the entry is valid at that instant, and a lookup that         *)
(* follows is a hit that sends no request.                                *)
C18_ConcurrentCallsConverge ==
    out.fn = "prefetchSignedUrls" =>
      \A k \in 1..Len(out.toFetch) :
         LET group == Concurrent(k)
             img == out.toFetch[k]
             e == CacheGet(urlCache, out.tenant \o ":" \o img.type \o ":"
                                       \o img.filename)
             doneAt == LastOf({out.items[j].doneAt : j \in Succeeded(group)})
         IN  /\ (out.items[k].state # "waiting" /\ cachedStorageConfig.driver # "r2") =>
                  \A j \in 1..Len(out.toFetch) :
                     (/\ (j - 1) \div BATCH_SIZE = (k - 1) \div BATCH_SIZE
                      /\ out.toFetch[j] = img) =>
                        /\ out.items[j].sent = out.items[k].sent
                        /\ out.items[j].state = "pending" =>
                              \E r \in inflight :
                                 /\ r.slot = PrefetchSlot(j)
                                 /\ r.filename = img.filename
             /\ (/\ k \in group
                 /\ Completed(group)
                 /\ Succeeded(group) # {}) =>
                  /\ e # NoEntry
                  /\ e.url \in {out.items[j].url : j \in Succeeded(group)}
                  /\ e.storedAt = doneAt
                  /\ \A j \in Succeeded(group) :
                        out.items[j].doneAt = doneAt => out.items[j].url = e.url
                  /\ now = doneAt =>
                        now < e.storedAt + ExpirationSeconds - CACHE_BUFFER_SECONDS
                  /\ \A n \in 1..Len(out.toFetch) :
                        (/\ (n - 1) \div BATCH_SIZE > (k - 1) \div BATCH_SIZE
                         /\ out.toFetch[n] = img
                         /\ out.items[n].state # "waiting") =>
                           /\ out.items[n].fromCache
                           /\ ~out.items[n].sent
                           /\ out.items[n].url = e.url

\* two concurrent calls for one image: the one that completed first was
\* signed, the other was refused later, and the image of the next batch was
\* answered from the cache
C18_Witness ==
    /\ out.fn = "prefetchSignedUrls"
    /\ Len(out.toFetch) = BATCH_SIZE + 1
    /\ out.toFetch[1] = out.toFetch[2]
    /\ out.toFetch[1] = out.toFetch[BATCH_SIZE + 1]
    /\ out.items[1].sent /\ out.items[1].failed
    /\ out.items[2].sent /\ ~out.items[2].failed
    /\ out.items[2].state = "done"
    /\ out.items[1].doneAt > out.items[2].doneAt
    /\ Completed(Concurrent(1))
    /\ out.items[BATCH_SIZE + 1].fromCache

\* the two calls were both signed, at different instants
C18_WitnessTwoSigned ==
    /\ out.fn = "prefetchSignedUrls"
    /\ Cardinality(Concurrent(1)) >= 2
    /\ Completed(Concurrent(1))
    /\ Succeeded(Concurrent(1)) = Concurrent(1)
    /\ out.items[1].doneAt > out.items[2].doneAt
    /\ out.items[1].url # out.items[2].url
    /\ CacheGet(urlCache, "acme:product:" \o out.toFetch[1].filename).url
          = out.items[1].url

\* what the claims read off a prefetchSignedUrls call
IsPrefetch == out.fn = "prefetchSignedUrls"

\* the requests of the call that are outstanding
OwnRequests == {r \in inflight : r.caller = "prefetchSignedUrls"}

\* the batch of the k-th image to fetch, batches counted from 0
BatchOf(k) == (k - 1) \div BATCH_SIZE

ToFetch == 1..Len(out.toFetch)

(* C19: during one prefetchSignedUrls call at most BATCH_SIZE signing     *)
(* requests of the call are outstanding, for every list length; a         *)
(* request of batch i+1 is sent only after every request of batch i has   *)
(* completed, successfully or not; and the call has resolved exactly when *)
(* all batches have completed: while it is pending it waits for a         *)
(* request of its own.                                                    *)
C19_BatchedRequests ==
    IsPrefetch =>
      /\ Cardinality(OwnRequests) <= BATCH_SIZE
      /\ {r.slot : r \in OwnRequests}
           = {PrefetchSlot(k) : k \in {x \in ToFetch :
                                         out.items[x].state = "pending"}}
      /\ \A k \in ToFetch : \A j \in ToFetch :
            (out.items[k].state # "waiting" /\ BatchOf(j) < BatchOf(k)) =>
               /\ out.items[j].state = "done"
               /\ out.items[k].sent => out.items[j].doneAt <= out.items[k].sentAt
      /\ out.status = "resolved" <=>
            \A k \in ToFetch : out.items[k].state = "done"
      /\ out.status = "pending" => OwnRequests # {}

\* the second batch is outstanding after a first batch in which a request
\* failed and the other succeeded later
C19_Witness ==
    /\ IsPrefetch
    /\ Len(out.toFetch) = BATCH_SIZE + 1
    /\ out.items[BATCH_SIZE + 1].state = "pending"
    /\ out.items[1].sent /\ out.items[1].url = NULL
    /\ out.items[2].sent /\ Truthy(out.items[2].url)
    /\ out.items[2].doneAt > out.items[1].doneAt
    /\ Cardinality(OwnRequests) = 1

\* a full batch is outstanding
C19_WitnessFull ==
    /\ IsPrefetch
    /\ Cardinality(OwnRequests) = BATCH_SIZE
    /\ Len(out.toFetch) > BATCH_SIZE

\* the image had a valid entry in the cache when the call was made
ValidAtCall(img) ==
    \E e \in Entries(out.cacheAtCall) :
       /\ e.key = out.tenant \o ":" \o img.type \o ":" \o img.filename
       /\ out.calledAt < e.storedAt + ExpirationSeconds - CACHE_BUFFER_SECONDS

UrlAtCall(img) ==
    (CHOOSE e \in Entries(out.cacheAtCall) :
        e.key = out.tenant \o ":" \o img.type \o ":" \o img.filename).url

ResultKeys == {x.key : x \in out.results}

KeyOf(img) == img.type \o ":" \o img.filename

ImagesOf(seq) == {seq[n] : n \in 1..Len(seq)}

(* C20: prefetchSignedUrls answers every image whose cache entry is valid *)
(* at call time from the cache, without a signing request; the Map it     *)
(* resolves to has an entry '{type}:{filename}' exactly for the images    *)
(* that were valid in the cache or for which a signing request            *)
(* succeeded; an image whose signing requests all failed has no entry,    *)
(* and a failure does not make the call reject.                           *)
C20_PrefetchResults ==
    IsPrefetch =>
      /\ \A img \in ImagesOf(out.images) :
            ValidAtCall(img) =>
               /\ img \notin ImagesOf(out.toFetch)
               /\ [key |-> KeyOf(img), url |-> UrlAtCall(img)] \in out.results
      /\ ImagesOf(out.toFetch)
           = {img \in ImagesOf(out.images) : ~ValidAtCall(img)}
      /\ \A x \in out.results : \A y \in out.results : x.key = y.key => x = y
      /\ out.status \in {"pending", "resolved"}
      /\ \A k \in ToFetch :
            (out.items[k].state = "done" /\ out.items[k].sent
               /\ out.items[k].failed) => out.items[k].url = NULL
      /\ out.status = "resolved" =>
            ResultKeys =
               {KeyOf(img) : img \in {x \in ImagesOf(out.images) : ValidAtCall(x)}}
               \cup {KeyOf(out.toFetch[k]) :
                       k \in {x \in ToFetch :
                                \/ out.items[x].fromCache
                                \/ out.items[x].sent /\ ~out.items[x].failed}}

\* the call has resolved with one image answered by the filter, one signed
\* and one refused that has no entry
C20_Witness ==
    /\ IsPrefetch
    /\ out.status = "resolved"
    /\ out.fromFilter # {}
    /\ \E k \in ToFetch :
          /\ out.items[k].sent /\ out.items[k].failed
          /\ KeyOf(out.toFetch[k]) \notin ResultKeys
    /\ Len(out.images) = BATCH_SIZE + 1
    /\ Len(urlCache) = 2
    /\ \E e \in Entries(urlCache) : e.storedAt = out.calledAt - (ExpirationSeconds - CACHE_BUFFER_SECONDS)

\* two requests for one image, the first refused, the second signed
C20_WitnessDuplicate ==
    /\ IsPrefetch
    /\ out.status = "resolved"
    /\ \E k \in ToFetch : \E j \in ToFetch :
          /\ out.toFetch[k] = out.toFetch[j]
          /\ out.items[k].sent /\ out.items[k].failed
          /\ out.items[j].sent /\ ~out.items[j].failed
          /\ KeyOf(out.toFetch[k]) \in ResultKeys

\* driver r2 without a public_url, and no CDN
R2Fault(storage) ==
    /\ CDN_URL = ""
    /\ storage.driver = "r2"
    /\ ~Truthy(storage.public_url)

NewFormatCard ==
    /\ CardFilename \in NewFormatNames
    /\ Truthy(CardPublicId)
    /\ CardType \in {"product", "category"}

(* C21 as stated: with driver r2, no CDN and an empty or null public_url  *)
(* the builders return the proxy URL {apiBaseUrl}/{tenant}/storage/gcs/   *)
(* img/tenants/{storageFolderOrTenant}/{type}/{filename}, for legacy and  *)
(* for new-format (publicId) filenames alike.                             *)
C21_R2FaultProxyAlike ==
    /\ (/\ out.fn \in {"getImageUrl", "utils.getImageUrl"} /\ Plain(out.filename)
        /\ Truthy(GivenTenant) /\ R2Fault(GivenStorage)) =>
          out.result = ProxyUrl(GivenStorage, GivenTenant, out.type, out.filename)
    /\ (/\ IsCardCall /\ Plain(CardFilename)
        /\ Truthy(CardTenant) /\ R2Fault(CardStorage)) =>
          out.result = ProxyUrl(CardStorage, CardTenant, CardType, CardFilename)

(* C21: with driver r2, no CDN and an empty or null public_url the        *)
(* builders return a string and never the r2 form: for a legacy filename  *)
(* with a known tenant the proxy URL {apiBaseUrl}/{tenant}/storage/gcs/   *)
(* img/tenants/{storageFolderOrTenant}/{type}/{filename}; for a           *)
(* new-format filename with a publicId on a product or category the       *)
(* backend URL {apiBaseUrl}/storage/{pathPrefix}/{prefixLetter}/          *)
(* {publicId}/{filename}.                                                 *)
C21_R2FaultFallback ==
    /\ (/\ out.fn = "getImageUrl" /\ Plain(out.filename)
        /\ Truthy(GivenTenant) /\ R2Fault(GivenStorage)) =>
          out.result = ProxyUrl(GivenStorage, GivenTenant, out.type, out.filename)
    /\ (IsCardCall /\ Plain(CardFilename) /\ R2Fault(CardStorage)) =>
          IF NewFormatCard
          THEN out.result = API_BASE_URL \o "/storage/"
                 \o (IF Truthy(CardStorage.path_prefix)
                     THEN CardStorage.path_prefix ELSE "img")
                 \o "/" \o PrefixLetter(CardType) \o "/" \o CardPublicId
                 \o "/" \o CardFilename
          ELSE Truthy(CardTenant) =>
                 out.result = ProxyUrl(CardStorage, CardTenant, CardType,
                                       CardFilename)
    /\ (out.fn \in {"getImageUrl", "getEntityCardImageUrl", "CanonicalProductPage",
                    "getPublicIdImageUrl"}) =>
          /\ out.result # NULL
          /\ Len(out.result) > 0
          /\ ~StartsWith(out.result, NULL)

\* a legacy filename with the configuration that has no public_url
C21_Witness ==
    /\ out.fn = "getImageUrl"
    /\ CDN_URL = ""
    /\ GivenStorage = CfgR2NoUrl
    /\ out.filename = "/logo.png"
    /\ GivenTenant = "acme"
    /\ out.result = "http://localhost:80/acme/storage/gcs/img/tenants/schema1/"
                       \o out.type \o "/logo.png"

\* a new-format filename with a configuration that has no public_url
C21_WitnessNewFormat ==
    /\ out.fn = "getEntityCardImageUrl"
    /\ R2Fault(CardStorage)
    /\ Truthy(CardTenant)
    /\ NewFormatCard
    /\ StartsWith(out.result, "http://localhost:80/storage/img/")

\* what follows the first "/tenants/" of a URL, NULL when there is none
RECURSIVE AfterTenants(_)
AfterTenants(url) ==
    IF Len(url) < Len("/tenants/") THEN NULL
    ELSE IF StartsWith(url, "/tenants/")
         THEN SubSeq(url, Len("/tenants/") + 1, Len(url))
         ELSE AfterTenants(DropFirst(url))

TenantScoped(url) == url # NULL /\ AfterTenants(url) # NULL

(* C22: in every tenant-scoped URL the builders produce (CDN,             *)
(* public-bucket and proxy forms) the segment after "tenants/" is the     *)
(* configuration's storage_folder when that is present and non-empty and  *)
(* the tenant id otherwise, with the storage configuration passed per     *)
(* call and with the one set by setStorageConfig.                         *)
C22_FolderOrTenantSegment ==
    /\ (out.fn \in {"getImageUrl", "utils.getImageUrl"}
        /\ Composable(out.filename) /\ TenantScoped(out.result)) =>
          StartsWith(AfterTenants(out.result),
                     FolderOrTenant(GivenStorage, GivenTenant) \o "/" \o out.type \o "/")
    /\ (IsCardCall /\ Composable(CardFilename) /\ TenantScoped(out.result)) =>
          StartsWith(AfterTenants(out.result),
                     FolderOrTenant(CardStorage, CardTenant) \o "/" \o CardType \o "/")
    /\ (out.fn = "getPublicIdImageUrl" /\ out.indexOrFilename.isNum) =>
          ~TenantScoped(out.result)

\* C22 for the builders that read storage_folder: getImageUrl with
\* buildCdnUrl / buildR2Url / buildProxyUrl and the card builders
C22_FolderOrTenantWhereRead ==
    /\ (out.fn = "getImageUrl" /\ Composable(out.filename)
        /\ TenantScoped(out.result)) =>
          StartsWith(AfterTenants(out.result),
                     FolderOrTenant(GivenStorage, GivenTenant) \o "/" \o out.type \o "/")
    /\ (IsCardCall /\ Composable(CardFilename) /\ TenantScoped(out.result)) =>
          StartsWith(AfterTenants(out.result),
                     FolderOrTenant(CardStorage, CardTenant) \o "/" \o CardType \o "/")
    /\ (out.fn = "getPublicIdImageUrl" /\ out.indexOrFilename.isNum) =>
          ~TenantScoped(out.result)

\* the proxy form with the snapshot's empty storage_folder: the tenant id
C22_Witness ==
    /\ out.fn = "getImageUrl"
    /\ out.options = NoOptions
    /\ cachedStorageConfig = CfgGcs
    /\ CDN_URL = ""
    /\ out.filename = "logo.png"
    /\ AfterTenants(out.result) = "acme/" \o out.type \o "/logo.png"

\* the public-bucket form with a storage_folder passed per call
C22_WitnessPerCall ==
    /\ out.fn = "getImageUrl"
    /\ out.options.kind = "new"
    /\ out.options.storageConfig = CfgR2Folder
    /\ cachedStorageConfig # CfgR2Folder
    /\ CDN_URL = ""
    /\ StartsWith(out.result, CfgR2Folder.public_url)
    /\ StartsWith(AfterTenants(out.result), "schema1/")

\* the CDN form with the snapshot's storage_folder
C22_WitnessCdn ==
    /\ out.fn = "getImageUrl"
    /\ out.options = NoOptions
    /\ cachedStorageConfig = CfgR2Folder
    /\ Truthy(CDN_URL)
    /\ StartsWith(out.result, CdnBase)
    /\ StartsWith(AfterTenants(out.result), "schema1/")

\* the request that this step settles
Settled == CHOOSE r \in inflight : r \notin inflight'

(* C23: every signing request carries key = "tenants/{tenant}/{type}/     *)
(* {filename}" with a single leading "/" stripped from the filename, and  *)
(* expiration = 10 minutes, and the cache entry stored for its result     *)
(* gets expiresAt = (time of storing) + the same 10 minutes.              *)
C23_RequestKeyAndExpiry ==
    /\ [](\A r \in inflight :
            /\ r.key = "tenants/" \o r.tenant \o "/" \o r.type \o "/"
                          \o StripSlash(r.filename)
            /\ r.expiration = 10)
    /\ [][DeliverStep =>
            \A e \in Entries(urlCache') \ Entries(urlCache) :
               /\ e.key = Settled.tenant \o ":" \o Settled.type \o ":"
                             \o Settled.filename
               /\ e.expiresAt = now' + Settled.expiration * 60
               /\ e.storedAt = now']_vars

\* a request for "/a.png", sent one clock step before its result is stored
C23_Witness ==
    /\ ret.fn = "getSignedImageUrl"
    /\ ret.filename = "/a.png"
    /\ ret.sent
    /\ \E e \in Entries(urlCache) :
          /\ e.key = "acme:product:/a.png"
          /\ e.url = ret.value
          /\ e.expiresAt = now + 600
          /\ now > PrefetchStart

\* the request in flight
C23_WitnessRequest ==
    \E r \in inflight :
       /\ r.filename = "/a.png"
       /\ r.key = "tenants/acme/product/a.png"
       /\ r.expiration = 10

(* C24: a signing request that completes late never corrupts the cache:   *)
(* after clearSignedUrlCache() has run, the cache contains only entries   *)
(* whose signing request was issued after that clear, also when a request *)
(* issued before the clear completes after it.                            *)
C24_NoEntryFromBeforeClear ==
    [][(DeliverStep /\ Settled.beforeClear) =>
          Entries(urlCache') \subseteq Entries(urlCache)]_vars

\* this step settles a signing request that failed
FailedStep == DeliverStep /\ SigningFailed(ret'.response)

(* C25: a signing request that fails (network error, non-2xx response     *)
(* including HTTP 401, or malformed payload) leaves the signed-URL cache  *)
(* and the stored session token unchanged; its only effects are a logged  *)
(* warning and the caller receiving the proxy URL.                        *)
C25_FailureLeavesCacheAndToken ==
    [][FailedStep =>
          /\ urlCache' = urlCache
          /\ token' = token
          /\ (/\ ret'.fn = "getImageUrlWithSignedFallback"
              /\ Composable(ret'.filename)) =>
                ret'.value = ProxyUrl(ret'.storage, ret'.tenant, ret'.type,
                                      ret'.filename)]_vars

\* C25 without the HTTP 401 response, which the API client's response
\* interceptor answers by removing the token and leaving for the login page
C25_FailureLeavesCacheAndTokenUnless401 ==
    [][FailedStep =>
          /\ urlCache' = urlCache
          /\ ret'.response.kind # "http401" =>
                token' = token /\ navPending' = navPending
          /\ ret'.response.kind = "http401" =>
                token' = NULL /\ navPending'
          /\ (/\ ret'.fn = "getImageUrlWithSignedFallback"
              /\ Composable(ret'.filename)) =>
                ret'.value = ProxyUrl(ret'.storage, ret'.tenant, ret'.type,
                                      ret'.filename)]_vars

\* a fallback call that asked for a signed URL and was not refused one
AskedAndServed ==
    /\ IsFallback
    /\ ret.status = "resolved"
    /\ ret.asked
    /\ ret.sent => ~SigningFailed(ret.response)

\* the call returned the signed URL, from the cache or from the signer
ReturnedSigned ==
    \/ ret.fromCache /\ ret.value = ret.cached.url
    \/ ret.sent /\ ret.value = ret.response.url

(* C26: the storage configuration passed per call decides the strategy:   *)
(* getImageUrlWithSignedFallback with a storage configuration of driver   *)
(* gcs with use_signed_urls, preferSignedUrl true, a stored token, no CDN *)
(* and a signer that succeeds returns the signed URL (from the cache or   *)
(* from the signer) whatever configuration setStorageConfig last stored,  *)
(* a configuration of driver r2 included.                                 *)
C26_PerCallConfigDecides ==
    (AskedAndServed /\ ret.storage = CfgGcsSigned) => ReturnedSigned

\* C26 where the configuration stored by setStorageConfig is not of driver
\* r2 when getSignedImageUrl is called
C26_SignedUnlessSnapshotR2 ==
    [][(/\ ret = NoRet
        /\ AskedAndServed'
        /\ ret'.storage = CfgGcsSigned
        /\ ret'.sent \/ ~usesPublicUrls) => ReturnedSigned']_vars

\* what the lookup of getSignedImageUrl returns for a key: the cached url
\* or a miss
Lookup(cache, key, t) ==
    LET cached == CacheGet(cache, key)
    IN  IF cached # NoEntry /\ isCacheValid(cached, t) THEN cached.url
        ELSE NULL

(* C27: while the cache holds at most MAX_CACHE_SIZE entries,             *)
(* housekeeping never removes an entry that a lookup would still return:  *)
(* every entry deleted by cleanExpiredCache in that situation has         *)
(* now >= expiresAt, so a read that triggers the sweep returns the same   *)
(* result (cached url or miss) as a read that does not trigger it.        *)
C27_SweepKeepsLookups ==
    (ret.fn = "cleanExpiredCache" /\ Len(ret.before) <= MAX_CACHE_SIZE) =>
      /\ Entries(urlCache) \subseteq Entries(ret.before)
      /\ \A e \in Entries(ret.before) \ Entries(urlCache) :
            ret.at >= e.expiresAt
      /\ \A k \in CacheKeys(ret.before) :
            Lookup(urlCache, k, ret.at) = Lookup(ret.before, k, ret.at)

\* the sweep of a full cache deleted an expired entry and kept the other
C27_Witness ==
    /\ ret.fn = "cleanExpiredCache"
    /\ Len(ret.before) = MAX_CACHE_SIZE
    /\ Len(urlCache) = Len(ret.before) - 1
    /\ \E k \in CacheKeys(ret.before) \ CacheKeys(urlCache) :
          Lookup(ret.before, k, ret.at) = NULL

\* the sweep of a full cache whose entries a lookup still returns
C27_WitnessKept ==
    /\ ret.fn = "cleanExpiredCache"
    /\ Len(ret.before) = MAX_CACHE_SIZE
    /\ urlCache = ret.before
    /\ \A k \in CacheKeys(urlCache) : Lookup(urlCache, k, ret.at) # NULL

IsHook == out.fn = "useSignedImageUrl"

\* a load started by the hook is still in flight
LoadInFlight == \E i \in 1..Len(out.loads) : out.loads[i].state = "pending"

(* C28: useSignedImageUrl converges to the latest request: when its       *)
(* (type, filename) input changes while an earlier load is still in       *)
(* flight, then after all in-flight loads have completed, in any          *)
(* completion order, imageUrl is the URL resolved for the most recent     *)
(* (type, filename) and isLoading is false; isLoading is true whenever a  *)
(* load started by the hook is still in flight.                           *)
C28_ConvergesToLatest ==
    IsHook =>
      /\ LoadInFlight => out.isLoading
      /\ (~LoadInFlight /\ Len(out.loads) > 0) =>
            /\ out.imageUrl = out.loads[Len(out.loads)].url
            /\ ~out.isLoading

\* C28 for a hook whose input was never changed, nor refreshed, while a
\* load was in flight: it has started one load
C28_SingleLoad ==
    (IsHook /\ Len(out.loads) = 1) =>
      /\ LoadInFlight => out.isLoading
      /\ ~LoadInFlight =>
            /\ out.imageUrl = out.loads[1].url
            /\ ~out.isLoading

IsCart == out.fn = "useCartActions"

\* this step is a call of addToCart
AddStep == IsCart /\ IsCart' /\ out'.last # NoAdd /\ out'.config = out.config

\* the store is open: no configuration or no branches loaded yet, or the
\* first branch's is_open, which counts as true when the field is missing
StoreOpen ==
    \/ ~out.config.loaded
    \/ ~out.config.hasBranches
    \/ out.config.branches = << >>
    \/ /\ out.config.branches # << >>
       /\ out.config.branches[1].is_open # Some(FALSE)

C29_WitnessOpen ==
    /\ IsCart
    /\ out.config = ConfigNoBranches
    /\ out.last.returned
    /\ out.cart = << "p1" >>

\* the cache keys of the two spellings of a filename, with and without one
\* leading "/"
Spellings(tenant, type, filename) ==
    {tenant \o ":" \o type \o ":" \o StripSlash(filename),
     tenant \o ":" \o type \o ":/" \o StripSlash(filename)}

\* the cache holds a valid entry stored for the asset of the call, under
\* either spelling
AssetCached(r) ==
    \E e \in Entries(urlCache) :
       /\ e.key \in Spellings(r.tenant, r.type, r.filename)
       /\ now < e.expiresAt - CACHE_BUFFER_SECONDS

(* C30: two filenames that differ only by one leading "/" denote the same *)
(* asset in the cache: after a successful signing call for one of them,   *)
(* getSignedImageUrl for the other (same tenant and type) is a cache hit  *)
(* and sends no second signing request.                                   *)
C30_SlashSpellingsShareEntry ==
    [][(SignedCallStep /\ AssetCached(ret') /\ ~usesPublicUrls) =>
          /\ ret'.fromCache
          /\ inflight' = inflight]_vars

\* C30 for one spelling: a call with the filename as it was cached
C30_SameSpellingHits ==
    [][(/\ SignedCallStep
        /\ ~usesPublicUrls
        /\ \E e \in Entries(urlCache) :
              /\ e.key = ret'.tenant \o ":" \o ret'.type \o ":" \o ret'.filename
              /\ now < e.expiresAt - CACHE_BUFFER_SECONDS) =>
          /\ ret'.fromCache
          /\ inflight' = inflight]_vars

-----------------------------------------------------------------------------
(* C8 as stated: with a non-empty CDN base URL, for every driver and every
   entity type, every URL the builders return starts with the CDN base URL
   (trailing slash removed).  Refuted: the placeholder and absolute
   filenames are returned without the CDN base. *)
C8_AlwaysCdnRooted ==
    (CDN_URL # "" /\ out.fn \in {"getImageUrl", "getPublicIdImageUrl"})
        => StartsWith(out.result, CdnRoot)

(* C8 amended: with a non-empty CDN base URL, for every driver and entity
   type, getImageUrl called with a non-empty, non-absolute filename and a
   known tenant, and getPublicIdImageUrl called with a non-empty publicId for
   an entity type that has a public-id prefix (product, category), return a
   URL that starts with the CDN base URL (trailing slash removed); in the
   other cases the result is the placeholder, or the absolute filename
   unchanged. *)
C8_CdnRooted ==
    CDN_URL # "" =>
      /\ out.fn = "getImageUrl" =>
           IF ~Truthy(out.filename) THEN out.result = "/placeholder.svg"
           ELSE IF ~Composable(out.filename) THEN out.result = out.filename
           ELSE IF ~Truthy(GivenTenant) THEN out.result = "/placeholder.svg"
           ELSE StartsWith(out.result, CdnRoot \o "/")
      /\ out.fn = "getPublicIdImageUrl" =>
           IF Truthy(out.publicId) /\ out.type \in {"product", "category"}
           THEN StartsWith(out.result, CdnRoot \o "/")
           ELSE out.result = "/placeholder.svg"

C8_Witness ==
    /\ out.fn = "getImageUrl"
    /\ CDN_URL = "https://cdn.example.com/"
    /\ GivenStorage.driver = "r2"
    /\ out.type = "banner"
    /\ out.filename = "/logo.png"
    /\ out.result = "https://cdn.example.com/img/tenants/acme/banner/logo.png"

(* C9: new-format routing.  When the filename matches ^\d+\.\w+$, a publicId
   is present and the entity type is product or category, the card builders
   return a URL containing {prefixLetter}/{publicId}/{filename} and no
   tenant-scoped segment tenants/...; when one of the three conditions fails
   and a URL is composed, it is the tenant-scoped one and does not contain the
   public-id segment: the choice depends on these three conditions only, for
   every driver, CDN setting and tenant.  getPublicIdImageUrl itself composes
   the public-id segment for product and category. *)
C9_NewFormatRouting ==
    /\ IsCardCall /\ Truthy(CardFilename) =>
         IF /\ CardFilename \in NewFormatNames
            /\ Truthy(CardPublicId)
            /\ CardType \in {"product", "category"}
         THEN /\ Includes(out.result, "/" \o PrefixLetter(CardType) \o "/"
                                \o CardPublicId \o "/" \o CardFilename)
              /\ ~Includes(out.result, "tenants/")
         ELSE (Composable(CardFilename) /\ Truthy(CardTenant)) =>
              /\ Includes(out.result, "/tenants/"
                     \o FolderOrTenant(CardStorage, CardTenant) \o "/"
                     \o CardType \o "/")
              /\ Truthy(CardPublicId) =>
                   ~Includes(out.result, "/" \o CardPublicId \o "/")
    /\ (/\ out.fn = "getPublicIdImageUrl"
        /\ Truthy(out.publicId)
        /\ out.type \in {"product", "category"}
        /\ ~out.indexOrFilename.isNum) =>
         /\ Includes(out.result, "/" \o PrefixLetter(out.type) \o "/"
                        \o out.publicId \o "/" \o out.indexOrFilename.s)
         /\ ~Includes(out.result, "tenants/")

C9_Witness ==
    /\ out.fn = "getEntityCardImageUrl"
    /\ out.type = "category"
    /\ out.entity.image = One("12.webp")
    /\ out.entity.publicId = NULL
    /\ out.entity.public_id = "01hy"
    /\ CardStorage.driver = "gcs"
    /\ CDN_URL = ""
    /\ out.result = "http://localhost:80/storage/img/c/01hy/12.webp"

(* C10 as stated: legacy-format routing.  When the filename does not match
   ^\d+\.\w+$ (a date-prefixed name, say), every builder that is given that
   filename together with a publicId returns the legacy tenant-scoped path
   tenants/{storageFolderOrTenant}/{type}/{filename}, and the publicId does
   not appear in the result.  The card builders do so; getProductImageUrls
   does not. *)
C10_CardLegacyRouting ==
    (/\ IsCardCall
     /\ Composable(CardFilename)
     /\ CardFilename \notin NewFormatNames
     /\ Truthy(CardPublicId)
     /\ Truthy(CardTenant)) =>
       /\ Includes(out.result, "/tenants/"
              \o FolderOrTenant(CardStorage, CardTenant) \o "/" \o CardType
              \o "/" \o StripSlash(CardFilename))
       /\ ~Includes(out.result, CardPublicId)

C10_LegacyRouting ==
    /\ C10_CardLegacyRouting
    /\ (out.fn = "getProductImageUrls" /\ Truthy(out.publicId)
        /\ out.images.isArray) =>
         \A i \in 1..Len(out.images.items) :
            LET img == out.images.items[i]
            IN  (~img.isNum /\ Composable(img.s) /\ img.s \notin NewFormatNames) =>
                  /\ Includes(out.results[i],
                         "/product/" \o StripSlash(img.s))
                  /\ Includes(out.results[i], "/tenants/")
                  /\ ~Includes(out.results[i], out.publicId)

=============================================================================
